---- MODULE Spec2Model ----
(***************************************************************************)
(* Focus-Breaker break-enforcement engine: Timer / WorkTimer / BreakTimer  *)
(* (core/timer.py), the mode policy (core/mode_controller.py), the         *)
(* scheduler (core/scheduler.py), the storage operations of DBManager      *)
(* (data/db.py) and the SessionManager orchestrator                        *)
(* (core/session_manager.py).                                              *)
(*                                                                         *)
(* Time is counted in seconds; the clock advances one minute at a time and *)
(* every live timer thread polls at least once per clock value (the loops  *)
(* sleep 1 s while Running and 0.1 s otherwise).                           *)
(*                                                                         *)
(* Storage is modelled by what the SQL statements of data/db.py do to the  *)
(* rows.  Three things DBManager cannot do as written are taken as the     *)
(* storage port states them: queries that bind a bare session id           *)
(* ("(session_id)") are taken to bind it, the one connection is taken to   *)
(* serve the timer threads as well as the caller's, and the audit calls    *)
(* logSessionEvent / logBreakEvent, which DBManager does not define, are   *)
(* fire-and-forget no-ops.                                                 *)
(*                                                                         *)
(* Six specifications share the variables.  Spec: the SessionManager      *)
(* with every public method and every timer callback atomic.  FairSpec:    *)
(* Spec under fair scheduling of the timer threads and the clock.  RaceSpec: *)
(* session completion in its steps, caller against timer thread.           *)
(* BreakRaceSpec: the end of a break in its steps, caller against the      *)
(* break timer's thread.                                                   *)
(* TimerSpec: one timer alone, loop and stop() statement by statement.     *)
(* SchedulerSpec: the scheduler's functions and the mode policy, each      *)
(* called once on arguments drawn at the start.                            *)
(*                                                                         *)
(* Python's None is 0 for ids and NoTime for time stamps.  List indices    *)
(* are 1-based here (Python's index i is i+1).                             *)
(***************************************************************************)
EXTENDS Integers, Sequences, FiniteSets, TLC

VARIABLES
    now,        \* monotonic / wall clock, seconds
    settings,   \* the settings row
    sessions,   \* work_sessions table: sequence of rows, id = index
    breaks,     \* breaks table: sequence of rows, id = index
    mgr,        \* SessionManager fields
    timers,     \* every Timer object constructed so far, id = index
    threads,    \* every timer thread started so far
    obs,        \* what the collaborators (streaks, observer) have received
    upc,        \* the caller's thread: position inside a public method
    calls       \* public calls made so far that changed anything

vars == <<now, settings, sessions, breaks, mgr, timers, threads, obs, upc, calls>>

None == 0
NoTime == -1
SecondsPerMinute == 60
SchemaDefaultPasses == 3

\* significant bits of a Python float (IEEE 754 binary64)
MantissaBits == 53

\* bits to a digit in the representation of a float; any width whose
\* products with a small int fit the integers works
LimbBits == 15

WarningSeconds == 60

\* ------------------------------------------------------------------ bounds
MaxMinutes == 3      \* the clock stops after this many minutes
MaxCalls == 4        \* public calls that change anything, per behaviour
MaxSessions == 2     \* sessions created, per behaviour
MaxTimerCalls == 3   \* calls made on the timer that stands alone, per behaviour
MaxDuration == 60    \* longest work duration handed to the scheduler, minutes
MaxOffset == 4       \* largest offset in a list handed to validate_break_schedule
MaxLen == 3          \* longest list handed to validate_break_schedule
MaxPlanned == 5      \* longest planned duration of a session being redistributed
MaxPending == 3      \* most pending breaks of a session being redistributed

\* a long session with many breaks still pending: minutes planned, rows
LongPlanned == 122
ManyPending == 13

\* ------------------------------------------------------------------ helpers
Max(a, b) == IF a >= b THEN a ELSE b

RECURSIVE InsertSorted(_, _)
InsertSorted(s, x) ==
    IF s = <<>> THEN <<x>>
    ELSE IF x < Head(s) THEN <<x>> \o s
    ELSE <<Head(s)>> \o InsertSorted(Tail(s), x)

RECURSIVE Sorted(_)
Sorted(s) == IF s = <<>> THEN <<>> ELSE InsertSorted(Sorted(Tail(s)), Head(s))

\* ------------------------------------------------------------------ inputs
Modes == {"normal", "strict", "focused"}

\* the tasks table; any other id is an unknown task
Tasks == <<
    [mode |-> "normal",  allocated_time_minutes |-> 2],
    [mode |-> "strict",  allocated_time_minutes |-> 2],
    [mode |-> "focused", allocated_time_minutes |-> 1] >>

TaskIds == 1..(Len(Tasks) + 1)

SettingsRows ==
    [ normal_work_interval_minutes   : {1},
      normal_break_duration_minutes  : {1},
      normal_snooze_duration_minutes : {1},
      strict_work_interval_minutes   : {2},
      strict_break_duration_minutes  : {1},
      strict_cooldown_minutes        : {1},
      focused_mandatory_break_minutes: {2},
      max_snooze_passes              : {1},
      snooze_redistributes_breaks    : {TRUE},
      allow_skip_in_normal_mode      : {TRUE} ]

\* getSettings() on an empty settings table
NoSettings == [missing |-> TRUE]

\* ------------------------------------------------------------------ mode policy
\* can_skip_break without the look at allow_skip_in_normal_mode
can_skip_break_IgnoresSetting(mode, st) == mode = "normal"

can_skip_break(mode, st) ==
    IF mode = "normal" THEN st.allow_skip_in_normal_mode ELSE FALSE

\* can_extend_session allowing every mode
can_extend_session_AnyMode(mode) == mode \in Modes

can_extend_session(mode) == mode = "normal"

requires_cooldown(mode) == mode = "strict" \/ mode = "focused"

get_cooldown_duration(mode, st) ==
    CASE mode = "normal"  -> 0
      [] mode = "strict"  -> st.strict_cooldown_minutes
      [] mode = "focused" -> st.focused_mandatory_break_minutes
      [] OTHER            -> 0

has_breaks_during_work(mode) == mode = "normal" \/ mode = "strict"

\* ------------------------------------------------------------------ scheduler
NORMAL_WORK_INTERVAL_MINUTES == 25
STRICT_WORK_INTERVAL_MINUTES == 52
NORMAL_BREAK_DURATION_MINUTES == 5
STRICT_BREAK_DURATION_MINUTES == 17
FOCUSED_MANDATORY_BREAK_MINUTES == 30

get_work_interval_for_mode(mode, st) ==
    CASE mode = "normal"  -> IF st.normal_work_interval_minutes # 0
                             THEN st.normal_work_interval_minutes
                             ELSE NORMAL_WORK_INTERVAL_MINUTES
      [] mode = "strict"  -> IF st.strict_work_interval_minutes # 0
                             THEN st.strict_work_interval_minutes
                             ELSE STRICT_WORK_INTERVAL_MINUTES
      [] mode = "focused" -> 0
      [] OTHER            -> NORMAL_WORK_INTERVAL_MINUTES

get_break_duration_for_mode(mode, st) ==
    CASE mode = "normal"  -> IF st.normal_break_duration_minutes # 0
                             THEN st.normal_break_duration_minutes
                             ELSE NORMAL_BREAK_DURATION_MINUTES
      [] mode = "strict"  -> IF st.strict_break_duration_minutes # 0
                             THEN st.strict_break_duration_minutes
                             ELSE STRICT_BREAK_DURATION_MINUTES
      [] mode = "focused" -> IF st.focused_mandatory_break_minutes # 0
                             THEN st.focused_mandatory_break_minutes
                             ELSE FOCUSED_MANDATORY_BREAK_MINUTES
      [] OTHER            -> FOCUSED_MANDATORY_BREAK_MINUTES

MIN_WORK_DURATION_MINUTES == 5

\* calculate_break_schedule keeping the multiple that falls on the end
calculate_break_schedule_UpToDuration(mode, work_duration_minutes, st) ==
    IF mode = "focused" THEN <<>>
    ELSE IF work_duration_minutes < MIN_WORK_DURATION_MINUTES THEN <<>>
    ELSE LET work_interval == get_work_interval_for_mode(mode, st)
         IN IF work_duration_minutes < work_interval THEN <<>>
            ELSE [i \in 1..(work_duration_minutes \div work_interval) |->
                     i * work_interval]

calculate_break_schedule(mode, work_duration_minutes, st) ==
    IF mode = "focused" THEN <<>>
    ELSE IF work_duration_minutes < MIN_WORK_DURATION_MINUTES THEN <<>>
    ELSE LET work_interval == get_work_interval_for_mode(mode, st)
         IN IF work_duration_minutes < work_interval THEN <<>>
            ELSE LET num_breaks == work_duration_minutes \div work_interval
                     below(break_time) == break_time < work_duration_minutes
                 IN SelectSeq([i \in 1..num_breaks |-> i * work_interval],
                              below)

\* validate_break_schedule without the look for duplicates
validate_break_schedule_AllowsDuplicates(break_times, work_duration_minutes) ==
    IF break_times = <<>> THEN TRUE
    ELSE IF break_times[1] <= 0
              \/ break_times[Len(break_times)] >= work_duration_minutes
    THEN FALSE
    ELSE break_times = Sorted(break_times)

validate_break_schedule(break_times, work_duration_minutes) ==
    IF break_times = <<>> THEN TRUE
    ELSE IF break_times[1] <= 0
              \/ break_times[Len(break_times)] >= work_duration_minutes
    THEN FALSE
    ELSE IF break_times # Sorted(break_times) THEN FALSE
    ELSE IF Len(break_times) #
              Cardinality({break_times[i] : i \in 1..Len(break_times)})
    THEN FALSE
    ELSE TRUE

\* int(elapsed_seconds / 60) of a start time that is not in the future
calculate_elapsed_minutes(start_time, clock) ==
    (clock - start_time) \div SecondsPerMinute

\* ------------------------------------------------------------------ world
\* The mutable program state as one record, so that a handler is a function
\* from world to world and a callback made inside a handler composes with it.
World == [mgr |-> mgr, timers |-> timers, threads |-> threads,
          sessions |-> sessions, breaks |-> breaks, obs |-> obs]

\* A Timer object that neither the manager nor a live thread refers to is
\* unreachable and is reclaimed, and so is the record of a thread that ended.
Collected == [kind |-> "collected"]
DeadThread == [timer |-> None, pc |-> "dead", polled |-> FALSE]

Reachable(w, t) ==
    \/ t \in {w.mgr.work_timer, w.mgr.break_timer, w.mgr.cooldown_timer}
    \/ \E th \in 1..Len(w.threads) :
           w.threads[th].pc # "dead" /\ w.threads[th].timer = t

Commit(w) ==
    /\ mgr' = w.mgr
    /\ timers' = [t \in 1..Len(w.timers) |->
                    IF Reachable(w, t) THEN w.timers[t] ELSE Collected]
    /\ threads' = [th \in 1..Len(w.threads) |->
                    IF w.threads[th].pc = "dead" THEN DeadThread
                    ELSE w.threads[th]]
    /\ sessions' = w.sessions
    /\ breaks' = w.breaks
    /\ obs' = w.obs

\* ------------------------------------------------------------------ Timer
NewTimer(kind, duration_minutes, break_times) ==
    [ kind              |-> kind,        \* "base", "work", "break", "cooldown"
      duration_minutes  |-> duration_minutes,
      duration_seconds  |-> duration_minutes * SecondsPerMinute,
      state             |-> "stopped",
      start_monotonic   |-> NoTime,
      pause_monotonic   |-> NoTime,
      paused_duration   |-> 0,
      elapsed_seconds   |-> 0,
      stop_event        |-> FALSE,
      thread            |-> None,        \* self._thread
      break_times       |-> Sorted(break_times),
      triggered_breaks  |-> {},
      warning_triggered |-> FALSE ]

NewThread(t) == [timer |-> t, pc |-> "top", polled |-> FALSE]

get_elapsed_seconds(tm, clock) ==
    CASE tm.state = "stopped"   -> 0
      [] tm.state = "paused"    -> tm.elapsed_seconds
      [] tm.state = "completed" -> tm.duration_seconds
      [] tm.state = "running"   -> (clock - tm.start_monotonic) - tm.paused_duration

get_remaining_seconds(tm, clock) ==
    Max(0, tm.duration_seconds - get_elapsed_seconds(tm, clock))

Timer_start(w, t, clock) ==
    IF w.timers[t].state = "running" THEN w
    ELSE [w EXCEPT !.timers[t].start_monotonic = clock,
                   !.timers[t].state = "running",
                   !.timers[t].stop_event = FALSE,
                   !.timers[t].thread = Len(w.threads) + 1,
                   !.threads = Append(w.threads, NewThread(t))]

Timer_pause(w, t, clock) ==
    IF w.timers[t].state # "running" THEN w
    ELSE [w EXCEPT !.timers[t].pause_monotonic = clock,
                   !.timers[t].state = "paused"]

Timer_resume(w, t, clock) ==
    IF w.timers[t].state # "paused" THEN w
    ELSE [w EXCEPT !.timers[t].paused_duration =
                        @ + (clock - w.timers[t].pause_monotonic),
                   !.timers[t].pause_monotonic = NoTime,
                   !.timers[t].state = "running"]

\* stop() with the background thread between two iterations of its loop:
\* the thread wakes within the join timeout, sees the stop flag and exits.
Timer_stop(w, t) ==
    LET th == w.timers[t].thread
        w1 == [w EXCEPT !.timers[t].state = "stopped",
                        !.timers[t].stop_event = TRUE]
    IN IF th # None /\ w1.threads[th].pc = "top"
       THEN [w1 EXCEPT !.threads[th].pc = "dead"]
       ELSE w1

\* WorkTimer.check_break_time: the first offset reached and not yet triggered
check_break_time(tm, clock) ==
    LET es == get_elapsed_seconds(tm, clock)
        hit == {i \in 1..Len(tm.break_times) :
                   es >= tm.break_times[i] /\ i \notin tm.triggered_breaks}
    IN IF hit = {} THEN None ELSE CHOOSE i \in hit : \A j \in hit : i <= j

\* update_break_times forgetting which indices were triggered
update_break_times_ForgetsTriggered(w, t, new_break_times) ==
    [w EXCEPT !.timers[t].break_times = Sorted(new_break_times),
              !.timers[t].triggered_breaks = {}]

update_break_times(w, t, new_break_times) ==
    [w EXCEPT !.timers[t].break_times = Sorted(new_break_times)]

\* ------------------------------------------------------------------ storage
HasSession(w, sid) == sid \in 1..Len(w.sessions)
HasBreak(w, bid) == bid \in 1..Len(w.breaks)

\* INSERT INTO work_sessions names thirteen columns; snooze_passes_remaining
\* is not among them, so the row takes the column's DEFAULT.
createSession(w, session) ==
    [w EXCEPT !.sessions = Append(w.sessions,
         [session EXCEPT !.snooze_passes_remaining = SchemaDefaultPasses])]

createBreak(w, break_obj) == [w EXCEPT !.breaks = Append(w.breaks, break_obj)]

NewBreak(sid, scheduled_time, duration_minutes) ==
    [ session_id |-> sid, scheduled_time |-> scheduled_time,
      actual_time |-> NoTime, duration_minutes |-> duration_minutes,
      status |-> "pending", snooze_count |-> 0, snooze_duration_minutes |-> 0 ]

SessionBreakIds(w, sid) ==
    {b \in 1..Len(w.breaks) : w.breaks[b].session_id = sid}

PendingBreakIds(w, sid) ==
    {b \in SessionBreakIds(w, sid) : w.breaks[b].status = "pending"}

\* ORDER BY scheduled_time; rows with equal times come in rowid order
Earliest(w, B) ==
    CHOOSE b \in B : \A c \in B :
        \/ w.breaks[b].scheduled_time < w.breaks[c].scheduled_time
        \/ w.breaks[b].scheduled_time = w.breaks[c].scheduled_time /\ b <= c

RECURSIVE OrderByScheduled(_, _)
OrderByScheduled(w, B) ==
    IF B = {} THEN <<>>
    ELSE LET b == Earliest(w, B)
         IN <<b>> \o OrderByScheduled(w, B \ {b})

getSessionBreaks(w, sid) == OrderByScheduled(w, SessionBreakIds(w, sid))

getPendingBreaks(w, sid) == OrderByScheduled(w, PendingBreakIds(w, sid))

getNextPendingBreak(w, sid) ==
    IF PendingBreakIds(w, sid) = {} THEN None
    ELSE Earliest(w, PendingBreakIds(w, sid))

\* Python floats, as far as redistribute_breaks_after_snooze uses them.  A
\* non-negative binary number is its integer part and the digits after the
\* point, LimbBits bits to a digit; a float is such a number with at most
\* MantissaBits significant bits.
LimbBase == 2 ^ LimbBits

Real(int, frac) == [int |-> int, frac |-> frac]

RECURSIVE BitLen(_)
BitLen(k) == IF k = 0 THEN 0 ELSE 1 + BitLen(k \div 2)

\* the zero bits between the point and the first one bit
RECURSIVE LeadingZeros(_)
LeadingZeros(frac) ==
    IF frac = <<>> THEN 0
    ELSE IF Head(frac) # 0 THEN LimbBits - BitLen(Head(frac))
    ELSE LimbBits + LeadingZeros(Tail(frac))

\* frac with amount added to its digit at pos: <<sum, carry out>>
RECURSIVE AddAt(_, _, _)
AddAt(frac, pos, amount) ==
    IF pos = 0 THEN <<frac, amount>>
    ELSE LET t == frac[pos] + amount
         IN AddAt([k \in 1..Len(frac) |->
                      IF k = pos THEN t % LimbBase ELSE frac[k]],
                  pos - 1, t \div LimbBase)

\* round to nearest, ties to even, at MantissaBits significant bits
RoundToFloat(x) ==
    LET keep == IF x.int > 0 THEN MantissaBits - BitLen(x.int)
                ELSE LeadingZeros(x.frac) + MantissaBits
        q    == keep \div LimbBits          \* digits kept whole
        p    == keep % LimbBits             \* bits kept of the next digit
    IN IF keep >= Len(x.frac) * LimbBits THEN x
       ELSE LET c      == x.frac[q + 1]
                unit   == 2 ^ (LimbBits - p)    \* the last place kept
                half   == unit \div 2
                rest   == c % unit
                guard  == rest >= half
                sticky == \/ rest % half # 0
                          \/ \E k \in (q + 2)..Len(x.frac) : x.frac[k] # 0
                last   == IF p > 0 THEN (c \div unit) % 2
                          ELSE IF q > 0 THEN x.frac[q] % 2
                          ELSE x.int % 2
                kept   == [k \in 1..Len(x.frac) |->
                              IF k <= q THEN x.frac[k]
                              ELSE IF k = q + 1 THEN c - rest
                              ELSE 0]
            IN IF guard /\ (sticky \/ last = 1)
               THEN LET inc == AddAt(kept, q + 1, unit)
                    IN Real(x.int + inc[2], inc[1])
               ELSE Real(x.int, kept)

\* the first count digits of r / b after the point; the last digit is made
\* odd when the division has not come out even by then
RECURSIVE DivLimbs(_, _, _)
DivLimbs(r, b, count) ==
    IF count = 0 THEN <<>>
    ELSE LET limb == (r * LimbBase) \div b
             r2   == (r * LimbBase) % b
         IN IF count = 1
            THEN << IF r2 # 0 /\ limb % 2 = 0 THEN limb + 1 ELSE limb >>
            ELSE <<limb>> \o DivLimbs(r2, b, count - 1)

\* a / b for ints a >= 0, b > 0: the quotient, rounded once
float_div(a, b) ==
    RoundToFloat(Real(a \div b,
        DivLimbs(a % b, b, (MantissaBits + BitLen(b) + 2) \div LimbBits + 1)))

\* frac times i: <<product digits, carry out>>
RECURSIVE MulLimbs(_, _)
MulLimbs(frac, i) ==
    IF frac = <<>> THEN <<frac, 0>>
    ELSE LET rest == MulLimbs(Tail(frac), i)
             t    == Head(frac) * i + rest[2]
         IN << <<t % LimbBase>> \o rest[1], t \div LimbBase >>

\* i * x for an int i >= 0 and a float x: the product, rounded once
float_mul_int(i, x) ==
    LET m == MulLimbs(x.frac, i)
    IN RoundToFloat(Real(x.int * i + m[2], m[1]))

\* e + x for an int e >= 0 and a float x: the sum, rounded once
float_add_int(e, x) == RoundToFloat(Real(x.int + e, x.frac))

\* int(x)
int_of(x) == x.int

\* scheduler.redistribute_breaks_after_snooze: the new offsets, in minutes.
\* It reads the session and its pending breaks and writes nothing.  The
\* k-th offset is int(elapsed + k * (remaining / (n + 1))), in floats; the
\* single-break case is integer arithmetic.
redistribute_breaks_after_snooze(w, session_id, clock) ==
    IF ~HasSession(w, session_id) THEN <<>>
    ELSE LET session == w.sessions[session_id]
             elapsed_minutes ==
                 calculate_elapsed_minutes(session.start_time, clock)
             remaining_time == session.planned_duration_minutes - elapsed_minutes
             pending_breaks == getPendingBreaks(w, session_id)
             n == Len(pending_breaks)
         IN IF remaining_time <= 0 THEN <<>>
            ELSE IF n = 0 THEN <<>>
            ELSE IF n = 1 THEN <<elapsed_minutes + (remaining_time \div 2)>>
            ELSE LET interval == float_div(remaining_time, n + 1)
                 IN [i \in 1..n |->
                        int_of(float_add_int(elapsed_minutes,
                                             float_mul_int(i, interval)))]

scheduleBreaksForSessions(w, sid, mode, work_duration_minutes, st) ==
    IF mode = "focused" THEN w
    ELSE LET work_interval ==
                 CASE mode = "normal" -> st.normal_work_interval_minutes
                   [] mode = "strict" -> st.strict_work_interval_minutes
                   [] OTHER           -> NORMAL_WORK_INTERVAL_MINUTES
             break_duration ==
                 CASE mode = "normal" -> st.normal_break_duration_minutes
                   [] mode = "strict" -> st.strict_break_duration_minutes
                   [] OTHER           -> NORMAL_BREAK_DURATION_MINUTES
             num_breaks == work_duration_minutes \div work_interval
             start_time == w.sessions[sid].start_time
         IN [w EXCEPT !.breaks = @ \o
                [i \in 1..num_breaks |->
                    NewBreak(sid,
                             start_time + i * work_interval * SecondsPerMinute,
                             break_duration)]]

\* DBManager.useSnoozePass: <<world, pass was available>>
useSnoozePass(w, sid) ==
    IF ~HasSession(w, sid) THEN <<w, FALSE>>
    ELSE IF w.sessions[sid].snooze_passes_remaining > 0
    THEN <<[w EXCEPT !.sessions[sid].snooze_passes_remaining = @ - 1,
                     !.sessions[sid].breaks_snoozed = @ + 1],
           TRUE>>
    ELSE <<w, FALSE>>

getSnoozePassesRemaining(w, sid) ==
    IF HasSession(w, sid) THEN w.sessions[sid].snooze_passes_remaining ELSE 0

canSnooze(w, sid) == getSnoozePassesRemaining(w, sid) > 0

\* mode_controller.can_snooze_break; db is whether a DBManager was passed
can_snooze_break(mode, session_id, db, w) ==
    IF session_id = None \/ ~db THEN FALSE
    ELSE IF ~HasSession(w, session_id) THEN FALSE
    ELSE IF mode = "normal"
    THEN LET snooze_pass == getSnoozePassesRemaining(w, session_id)
         IN snooze_pass < 0
    ELSE FALSE

\* The k-th pending break moves to now + k * remaining / (n + 1); the code
\* adds float minutes, here the result is cut to whole seconds.
redistributeRemainingBreaks(w, sid, clock) ==
    LET pending == getPendingBreaks(w, sid)
        n == Len(pending)
        elapsed == clock - w.sessions[sid].start_time
        remaining == w.sessions[sid].planned_duration_minutes * SecondsPerMinute
                        - elapsed
    IN IF ~HasSession(w, sid) \/ n = 0 \/ remaining <= 0 THEN w
       ELSE [w EXCEPT !.breaks =
                [b \in 1..Len(w.breaks) |->
                    IF \E k \in 1..n : pending[k] = b
                    THEN LET k == CHOOSE k \in 1..n : pending[k] = b
                         IN [w.breaks[b] EXCEPT
                               !.scheduled_time =
                                   clock + (k * remaining) \div (n + 1),
                               !.status = "pending"]
                    ELSE w.breaks[b]]]

\* snoozeBreak without the look at the passes left
snoozeBreak_NoPassCheck(w, bid, sid, snooze_duration_minutes, st, clock) ==
    <<[w EXCEPT !.sessions[sid].snooze_passes_remaining = @ - 1,
                !.sessions[sid].breaks_snoozed = @ + 1,
                !.breaks[bid].scheduled_time =
                    @ + snooze_duration_minutes * SecondsPerMinute,
                !.breaks[bid].snooze_count = @ + 1,
                !.breaks[bid].status = "snoozed"],
      TRUE>>

\* DBManager.snoozeBreak: <<world, success>>
snoozeBreak(w, bid, sid, snooze_duration_minutes, st, clock) ==
    IF ~canSnooze(w, sid) THEN <<w, FALSE>>
    ELSE LET used == useSnoozePass(w, sid)
             w1 == used[1]
         IN IF ~used[2] THEN <<w1, FALSE>>
            ELSE IF ~HasBreak(w1, bid) THEN <<w1, FALSE>>
            ELSE LET w2 == [w1 EXCEPT
                        !.breaks[bid].scheduled_time =
                            @ + snooze_duration_minutes * SecondsPerMinute,
                        !.breaks[bid].snooze_count = @ + 1,
                        !.breaks[bid].snooze_duration_minutes =
                            @ + snooze_duration_minutes,
                        !.breaks[bid].status = "snoozed"]
                 IN <<IF st.snooze_redistributes_breaks
                      THEN redistributeRemainingBreaks(w2, sid, clock)
                      ELSE w2,
                      TRUE>>

resetSnoozePasses(w, sid, st) ==
    IF HasSession(w, sid)
    THEN [w EXCEPT !.sessions[sid].snooze_passes_remaining = st.max_snooze_passes]
    ELSE w

update_streaks_after_session(w, sid) ==
    IF HasSession(w, sid)
    THEN [w EXCEPT !.obs.streak_updates[sid] = @ + 1]
    ELSE w

\* ------------------------------------------------------------------ SessionManager
NewManager ==
    [ active_session_id |-> None, work_timer |-> None, break_timer |-> None,
      cooldown_timer |-> None, current_break_id |-> None,
      is_in_break |-> FALSE, is_in_cooldown |-> FALSE ]

_cleanup_break(w) ==
    [w EXCEPT !.mgr.current_break_id = None,
              !.mgr.is_in_break = FALSE,
              !.mgr.break_timer = None]

\* _cleanup_session leaving active_session_id in place
_cleanup_session_KeepsActive(w) ==
    [w EXCEPT !.mgr = [NewManager EXCEPT
                          !.active_session_id = w.mgr.active_session_id]]

_cleanup_session(w) == [w EXCEPT !.mgr = NewManager]

\* the three steps of _complete_session_internal
csi_guard(w) == w.mgr.active_session_id # None

csi_body(w) ==
    LET sid == w.mgr.active_session_id
        w1 == IF HasSession(w, sid)
              THEN [w EXCEPT !.sessions[sid].status = "completed"]
              ELSE w
        w2 == update_streaks_after_session(w1, sid)
    IN [w2 EXCEPT !.obs.session_complete = @ + 1]

_complete_session_internal(w) ==
    IF csi_guard(w) THEN _cleanup_session(csi_body(w)) ELSE w

_start_break(w, bid, clock) ==
    LET t  == Len(w.timers) + 1
        w1 == [w EXCEPT
                 !.timers = Append(@,
                     NewTimer("break", w.breaks[bid].duration_minutes, <<>>)),
                 !.mgr.break_timer = t,
                 !.mgr.current_break_id = bid,
                 !.mgr.is_in_break = TRUE,
                 !.breaks[bid].actual_time = clock,
                 !.breaks[bid].status = "in_progress"]
    IN Timer_start(w1, t, clock)

_on_break_time_triggered(w, break_index, clock) ==
    LET sid == w.mgr.active_session_id
        next_break == getNextPendingBreak(w, sid)
    IN IF sid = None \/ next_break = None THEN w
       ELSE LET w1 == IF w.mgr.work_timer # None
                      THEN Timer_pause(w, w.mgr.work_timer, clock)
                      ELSE w
                w2 == _start_break(w1, next_break, clock)
            IN [w2 EXCEPT !.obs.break_triggered = next_break]

\* _on_break_timer_complete after its look at current_break_id; the fields
\* are read again where the code reads them again
break_complete_body(w, clock) ==
    LET bid == w.mgr.current_break_id
        sid == w.mgr.active_session_id
        w1 == IF HasBreak(w, bid)
              THEN [w EXCEPT !.breaks[bid].status = "completed"]
              ELSE w
        w2 == IF sid # None /\ HasSession(w1, sid)
              THEN [w1 EXCEPT !.sessions[sid].breaks_taken = @ + 1]
              ELSE w1
        w3 == _cleanup_break(w2)
    IN IF w3.mgr.work_timer # None
       THEN Timer_resume(w3, w3.mgr.work_timer, clock)
       ELSE w3

_on_break_timer_complete(w, clock) ==
    IF w.mgr.current_break_id = None THEN w
    ELSE break_complete_body(w, clock)

_start_cooldown(w, clock) ==
    LET sid == w.mgr.active_session_id
    IN IF sid = None \/ ~HasSession(w, sid) THEN w
       ELSE LET t  == Len(w.timers) + 1
                cooldown_minutes ==
                    get_cooldown_duration(w.sessions[sid].mode, settings)
                w1 == [w EXCEPT
                         !.timers = Append(@,
                             NewTimer("cooldown", cooldown_minutes, <<>>)),
                         !.mgr.cooldown_timer = t,
                         !.mgr.is_in_cooldown = TRUE]
            IN Timer_start(w1, t, clock)

\* _on_cooldown_complete up to its call of _complete_session_internal
cooldown_complete_head(w) ==
    [w EXCEPT !.mgr.is_in_cooldown = FALSE, !.mgr.cooldown_timer = None]

_on_cooldown_complete(w, clock) ==
    _complete_session_internal(cooldown_complete_head(w))

\* whether _on_work_timer_complete goes on to _complete_session_internal,
\* and the callback up to that call
work_complete_finalizes(w) ==
    LET sid == w.mgr.active_session_id
    IN sid # None /\ HasSession(w, sid)
          /\ ~requires_cooldown(w.sessions[sid].mode)

work_complete_head(w, clock) ==
    LET sid == w.mgr.active_session_id
    IN IF sid = None \/ ~HasSession(w, sid) THEN w
       ELSE LET start_time == w.sessions[sid].start_time
                w1 == [w EXCEPT
                         !.sessions[sid].end_time = clock,
                         !.sessions[sid].actual_duration_minutes =
                             (clock - start_time) \div SecondsPerMinute]
            IN IF requires_cooldown(w.sessions[sid].mode)
               THEN _start_cooldown(w1, clock)
               ELSE w1

_on_work_timer_complete(w, clock) ==
    IF work_complete_finalizes(w)
    THEN _complete_session_internal(work_complete_head(w, clock))
    ELSE work_complete_head(w, clock)

\* ------------------------------------------------------------------ timer threads
\* One pass of the loop in Timer._run / WorkTimer._run / BreakTimer._run,
\* callbacks included.
OnComplete(w, t, clock) ==
    CASE w.timers[t].kind = "work"     -> _on_work_timer_complete(w, clock)
      [] w.timers[t].kind = "break"    -> _on_break_timer_complete(w, clock)
      [] w.timers[t].kind = "cooldown" -> _on_cooldown_complete(w, clock)
      [] OTHER                         -> w

BreakCheck(w, t, clock) ==
    LET i == check_break_time(w.timers[t], clock)
    IN IF i = None THEN w
       ELSE _on_break_time_triggered(
                [w EXCEPT !.timers[t].triggered_breaks = @ \cup {i}], i, clock)

\* the warning at the first pass, however much time remains
WarningCheck_AtFirstPass(w, t, clock) ==
    IF ~w.timers[t].warning_triggered
    THEN [w EXCEPT !.timers[t].warning_triggered = TRUE]
    ELSE w

WarningCheck(w, t, clock) ==
    IF ~w.timers[t].warning_triggered
          /\ get_remaining_seconds(w.timers[t], clock) <= WarningSeconds
    THEN [w EXCEPT !.timers[t].warning_triggered = TRUE]
    ELSE w

\* whether this pass reaches "self.state = COMPLETED", and the pass up to
\* and including that assignment
IterationCompletes(w, th, clock) ==
    LET t == w.threads[th].timer
    IN /\ ~w.timers[t].stop_event
       /\ w.timers[t].state = "running"
       /\ get_elapsed_seconds(w.timers[t], clock) >= w.timers[t].duration_seconds

IterationHead(w, th, clock) ==
    LET t == w.threads[th].timer
    IN IF w.timers[t].stop_event THEN [w EXCEPT !.threads[th].pc = "dead"]
       ELSE IF w.timers[t].state # "running" THEN w
       ELSE LET es == get_elapsed_seconds(w.timers[t], clock)
                w1 == [w EXCEPT !.timers[t].elapsed_seconds = es]
                w2 == CASE w.timers[t].kind = "work" -> BreakCheck(w1, t, clock)
                        [] w.timers[t].kind \in {"break", "cooldown"} ->
                               WarningCheck(w1, t, clock)
                        [] OTHER -> w1
            IN IF w2.timers[t].elapsed_seconds >= w2.timers[t].duration_seconds
               THEN [w2 EXCEPT !.timers[t].state = "completed"]
               ELSE w2

RunIteration(w, th, clock) ==
    IF IterationCompletes(w, th, clock)
    THEN [OnComplete(IterationHead(w, th, clock), w.threads[th].timer, clock)
             EXCEPT !.threads[th].pc = "dead"]
    ELSE IterationHead(w, th, clock)

\* ------------------------------------------------------------------ public methods
\* Each returns <<world, raised>>.
create_session(w, task_id, clock) ==
    IF task_id \notin 1..Len(Tasks) THEN <<w, TRUE>>
    ELSE IF settings = NoSettings THEN <<w, TRUE>>
    ELSE LET task == Tasks[task_id]
             sid  == Len(w.sessions) + 1
             session ==
               [ task_id |-> task_id, start_time |-> clock, end_time |-> NoTime,
                 planned_duration_minutes |-> task.allocated_time_minutes,
                 actual_duration_minutes |-> NoTime,
                 mode |-> task.mode, status |-> "in_progress",
                 breaks_taken |-> 0, breaks_snoozed |-> 0, breaks_skipped |-> 0,
                 extended_count |-> 0, emergency_exits |-> 0,
                 snooze_passes_remaining |-> settings.max_snooze_passes ]
             w1 == createSession(w, session)
         IN <<IF has_breaks_during_work(task.mode)
              THEN scheduleBreaksForSessions(w1, sid, task.mode,
                                             task.allocated_time_minutes, settings)
              ELSE w1,
              FALSE>>

\* offsets of the given breaks from the session's start_time
BreakOffsets(w, sid, ids) ==
    [k \in 1..Len(ids) |->
        w.breaks[ids[k]].scheduled_time - w.sessions[sid].start_time]

\* start_session returning quietly where it should raise
start_session_NoRaise(w, session_id, clock) ==
    IF w.mgr.active_session_id # None \/ ~HasSession(w, session_id)
    THEN <<[w EXCEPT !.mgr.active_session_id = None, !.mgr.work_timer = None],
           FALSE>>
    ELSE LET session == w.sessions[session_id]
             break_times ==
                 IF has_breaks_during_work(session.mode)
                 THEN BreakOffsets(w, session_id, getSessionBreaks(w, session_id))
                 ELSE <<>>
             t  == Len(w.timers) + 1
             w1 == [w EXCEPT
                      !.timers = Append(@,
                          NewTimer("work", session.planned_duration_minutes,
                                   break_times)),
                      !.mgr.work_timer = t,
                      !.mgr.active_session_id = session_id]
         IN <<Timer_start(w1, t, clock), FALSE>>

start_session(w, session_id, clock) ==
    IF w.mgr.active_session_id # None \/ ~HasSession(w, session_id)
    THEN <<[w EXCEPT !.mgr.active_session_id = None, !.mgr.work_timer = None],
           TRUE>>
    ELSE LET session == w.sessions[session_id]
             break_times ==
                 IF has_breaks_during_work(session.mode)
                 THEN BreakOffsets(w, session_id, getSessionBreaks(w, session_id))
                 ELSE <<>>
             t  == Len(w.timers) + 1
             w1 == [w EXCEPT
                      !.timers = Append(@,
                          NewTimer("work", session.planned_duration_minutes,
                                   break_times)),
                      !.mgr.work_timer = t,
                      !.mgr.active_session_id = session_id]
         IN <<Timer_start(w1, t, clock), FALSE>>

take_break(w) == <<w, FALSE>>

snooze_break(w, clock) ==
    IF ~w.mgr.is_in_break \/ w.mgr.current_break_id = None
          \/ w.mgr.active_session_id = None
    THEN <<w, FALSE>>
    ELSE LET r == snoozeBreak(w, w.mgr.current_break_id, w.mgr.active_session_id,
                              settings.normal_snooze_duration_minutes,
                              settings, clock)
             w1 == r[1]
         IN IF ~r[2] THEN <<[w1 EXCEPT !.obs.snooze_refused = TRUE], FALSE>>
            ELSE LET w2 == IF w1.mgr.break_timer # None
                           THEN Timer_stop(w1, w1.mgr.break_timer) ELSE w1
                     w3 == _cleanup_break(w2)
                 IN <<IF w3.mgr.work_timer # None
                      THEN Timer_resume(w3, w3.mgr.work_timer, clock)
                      ELSE w3,
                      FALSE>>

skip_break(w, clock) ==
    IF ~w.mgr.is_in_break \/ w.mgr.current_break_id = None
          \/ w.mgr.active_session_id = None
    THEN <<w, FALSE>>
    ELSE LET bid == w.mgr.current_break_id
             sid == w.mgr.active_session_id
             w1 == [w EXCEPT !.breaks[bid].status = "skipped"]
             w2 == IF HasSession(w1, sid)
                   THEN [w1 EXCEPT !.sessions[sid].breaks_skipped = @ + 1]
                   ELSE w1
             w3 == IF w2.mgr.break_timer # None
                   THEN Timer_stop(w2, w2.mgr.break_timer) ELSE w2
             w4 == _cleanup_break(w3)
         IN <<IF w4.mgr.work_timer # None
              THEN Timer_resume(w4, w4.mgr.work_timer, clock)
              ELSE w4,
              FALSE>>

complete_session(w) == <<_complete_session_internal(w), FALSE>>

extend_session(w, additional_minutes, clock) ==
    LET sid == w.mgr.active_session_id
    IN IF sid = None \/ ~HasSession(w, sid) THEN <<w, TRUE>>
       ELSE IF ~can_extend_session(w.sessions[sid].mode) THEN <<w, TRUE>>
       ELSE
       LET session == w.sessions[sid]       \* the row as read before the update
           new_duration == session.planned_duration_minutes + additional_minutes
           w1 == [w EXCEPT
                    !.sessions[sid].planned_duration_minutes = new_duration,
                    !.sessions[sid].extended_count = session.extended_count + 1]
           w2 == resetSnoozePasses(w1, sid, settings)
           work_interval == get_work_interval_for_mode(session.mode, settings)
       IN IF work_interval = 0
          THEN <<w2, TRUE>>      \* ZeroDivisionError, after the two updates
          ELSE
       LET num_new_breaks == additional_minutes \div work_interval
           current_duration ==
               session.planned_duration_minutes - additional_minutes
           w3 == [w2 EXCEPT !.breaks = @ \o
                    [i \in 1..num_new_breaks |->
                        NewBreak(sid,
                            session.start_time
                              + (current_duration + i * work_interval)
                                   * SecondsPerMinute,
                            get_break_duration_for_mode(session.mode, settings))]]
           t == w3.mgr.work_timer
       IN <<IF t = None THEN w3
            ELSE update_break_times(
                    [w3 EXCEPT !.timers[t].duration_minutes = new_duration,
                               !.timers[t].duration_seconds =
                                   new_duration * SecondsPerMinute],
                    t,
                    BreakOffsets(w3, sid, getPendingBreaks(w3, sid))),
            FALSE>>

\* handle_emergency_exit without the update of emergency_exits
handle_emergency_exit_NoCount(w, clock) ==
    LET sid == w.mgr.active_session_id
    IN IF sid = None \/ ~HasSession(w, sid) THEN <<w, FALSE>>
       ELSE
       LET w2 == IF w.mgr.is_in_break /\ w.mgr.break_timer # None
                 THEN _cleanup_break(Timer_stop(w, w.mgr.break_timer))
                 ELSE w
           w3 == IF w2.mgr.is_in_cooldown /\ w2.mgr.cooldown_timer # None
                 THEN [Timer_stop(w2, w2.mgr.cooldown_timer) EXCEPT
                          !.mgr.is_in_cooldown = FALSE,
                          !.mgr.cooldown_timer = None]
                 ELSE w2
       IN <<w3, FALSE>>

handle_emergency_exit(w, clock) ==
    LET sid == w.mgr.active_session_id
    IN IF sid = None \/ ~HasSession(w, sid) THEN <<w, FALSE>>
       ELSE
       LET w1 == [w EXCEPT !.sessions[sid].emergency_exits = @ + 1]
           w2 == IF w1.mgr.is_in_break /\ w1.mgr.break_timer # None
                 THEN _cleanup_break(Timer_stop(w1, w1.mgr.break_timer))
                 ELSE w1
           w3 == IF w2.mgr.is_in_cooldown /\ w2.mgr.cooldown_timer # None
                 THEN [Timer_stop(w2, w2.mgr.cooldown_timer) EXCEPT
                          !.mgr.is_in_cooldown = FALSE,
                          !.mgr.cooldown_timer = None]
                 ELSE w2
           t == w3.mgr.work_timer
       IN <<IF t # None /\ w3.timers[t].state = "running"
            THEN Timer_resume(w3, t, clock)
            ELSE w3,
            FALSE>>

\* ------------------------------------------------------------------ specification
\* the extensions a caller may ask for
ExtendMinutes == 1..2

\* the ids a caller may pass: every session created so far and one unknown id
SessionIds == 1..(Len(sessions) + 1)

\* a public method returns <<world, raised>>; the caller sees the exception
\* and the world is what the method left behind.  A call that changes nothing
\* the program holds (it may still tell a collaborator) is not counted.
Call(r) ==
    /\ Commit(r[1])
    /\ IF [r[1] EXCEPT !.obs = obs] = World THEN calls' = calls
       ELSE calls < MaxCalls /\ calls' = calls + 1

Init ==
    /\ now = 0
    /\ settings \in SettingsRows \cup {NoSettings}
    /\ sessions = <<>>
    /\ breaks = <<>>
    /\ mgr = NewManager
    /\ timers = <<>>
    /\ threads = <<>>
    /\ obs = [ streak_updates |-> [i \in 1..MaxCalls |-> 0],
               session_complete |-> 0, break_triggered |-> None,
               snooze_refused |-> FALSE ]
    /\ upc = "idle"
    /\ calls = 0

\* Every live timer thread has run its pass for the current clock value.
\* The loops poll every second or faster, so a call from the caller's thread
\* finds the threads between two passes.
Quiet == \A th \in 1..Len(threads) : threads[th].pc = "top" => threads[th].polled

CreateSession(task_id) ==
    /\ Quiet
    /\ Len(sessions) < MaxSessions
    /\ Call(create_session(World, task_id, now))
    /\ UNCHANGED <<now, settings, upc>>

StartSession(session_id) ==
    /\ Quiet
    /\ Call(start_session(World, session_id, now))
    /\ UNCHANGED <<now, settings, upc>>

TakeBreak ==
    /\ Quiet
    /\ Call(take_break(World))
    /\ UNCHANGED <<now, settings, upc>>

SnoozeBreak ==
    /\ Quiet
    /\ Call(snooze_break(World, now))
    /\ UNCHANGED <<now, settings, upc>>

SkipBreak ==
    /\ Quiet
    /\ Call(skip_break(World, now))
    /\ UNCHANGED <<now, settings, upc>>

ExtendSession(additional_minutes) ==
    /\ Quiet
    /\ Call(extend_session(World, additional_minutes, now))
    /\ UNCHANGED <<now, settings, upc>>

CompleteSession ==
    /\ Quiet
    /\ Call(complete_session(World))
    /\ UNCHANGED <<now, settings, upc>>

EmergencyExit ==
    /\ Quiet
    /\ Call(handle_emergency_exit(World, now))
    /\ UNCHANGED <<now, settings, upc>>

\* a timer thread runs one pass of its loop
TimerStep(th) ==
    /\ threads[th].pc = "top"
    /\ ~threads[th].polled
    /\ Commit([RunIteration(World, th, now) EXCEPT !.threads[th].polled = TRUE])
    /\ UNCHANGED <<now, settings, upc, calls>>

\* a minute passes, once every live thread has polled
Tick ==
    /\ now < MaxMinutes * SecondsPerMinute
    /\ Quiet
    /\ now' = now + SecondsPerMinute
    /\ threads' = [th \in 1..Len(threads) |-> [threads[th] EXCEPT !.polled = FALSE]]
    /\ UNCHANGED <<settings, sessions, breaks, mgr, timers, obs, upc, calls>>

Next ==
    \/ \E task_id \in TaskIds : CreateSession(task_id)
    \/ \E session_id \in SessionIds : StartSession(session_id)
    \/ TakeBreak
    \/ SnoozeBreak
    \/ SkipBreak
    \/ \E additional_minutes \in ExtendMinutes : ExtendSession(additional_minutes)
    \/ CompleteSession
    \/ EmergencyExit
    \/ \E th \in 1..Len(threads) : TimerStep(th)
    \/ Tick

Spec == Init /\ [][Next]_vars

\* ------------------------------------------------------------------ FairSpec
\* Spec under fair scheduling.  Time passes whenever it can.  A live timer
\* thread gets to run its next pass (the loops are daemon threads that poll
\* every second or faster): as Tick waits for Quiet and no call makes a
\* thread due again, weak fairness of every thread's TimerStep is the same
\* as Quiet holding again and again, and is written that way.  Nothing is
\* assumed about the caller.
FairSpec ==
    /\ Spec
    /\ WF_vars(Tick)
    /\ []<>Quiet

\* ------------------------------------------------------------------ RaceSpec
\* complete_session on the caller's thread against the completion callbacks on
\* the timer threads, _complete_session_internal taken in its three steps:
\* the look at active_session_id, the finalization (status, streaks,
\* observer), and _cleanup_session.  No lock is held between them.
\* One session is started, once.
RaceCreate(task_id) ==
    /\ upc = "idle"
    /\ CreateSession(task_id)

RaceStart(session_id) ==
    /\ upc = "idle"
    /\ Len(timers) = 0
    /\ StartSession(session_id)

CompleteEnter ==
    /\ upc = "idle"
    /\ Quiet
    /\ csi_guard(World)
    /\ calls < MaxCalls
    /\ calls' = calls + 1
    /\ upc' = "csi_body"
    /\ UNCHANGED <<now, settings, sessions, breaks, mgr, timers, threads, obs>>

CompleteBody ==
    /\ upc = "csi_body"
    /\ Commit(csi_body(World))
    /\ upc' = "csi_cleanup"
    /\ UNCHANGED <<now, settings, calls>>

CompleteCleanup ==
    /\ upc = "csi_cleanup"
    /\ Commit(_cleanup_session(World))
    /\ upc' = "idle"
    /\ UNCHANGED <<now, settings, calls>>

\* where a thread stands after the look at active_session_id
AfterGuard(w, th) ==
    [w EXCEPT !.threads[th].pc = IF csi_guard(w) THEN "csi_body" ELSE "dead",
              !.threads[th].polled = TRUE]

\* one pass of a timer loop, stopping after the look at active_session_id
\* when the pass ends in _complete_session_internal
RaceTimerStep(th) ==
    /\ threads[th].pc = "top"
    /\ ~threads[th].polled
    /\ LET t    == threads[th].timer
           head == IterationHead(World, th, now)
       IN IF ~IterationCompletes(World, th, now)
          THEN Commit([head EXCEPT !.threads[th].polled = TRUE])
          ELSE IF timers[t].kind = "cooldown"
          THEN Commit(AfterGuard(cooldown_complete_head(head), th))
          ELSE IF timers[t].kind = "work" /\ work_complete_finalizes(head)
          THEN Commit(AfterGuard(work_complete_head(head, now), th))
          ELSE Commit([RunIteration(World, th, now) EXCEPT
                          !.threads[th].polled = TRUE])
    /\ UNCHANGED <<now, settings, upc, calls>>

RaceTimerBody(th) ==
    /\ threads[th].pc = "csi_body"
    /\ Commit([csi_body(World) EXCEPT !.threads[th].pc = "csi_cleanup"])
    /\ UNCHANGED <<now, settings, upc, calls>>

RaceTimerCleanup(th) ==
    /\ threads[th].pc = "csi_cleanup"
    /\ Commit([_cleanup_session(World) EXCEPT !.threads[th].pc = "dead"])
    /\ UNCHANGED <<now, settings, upc, calls>>

RaceTick ==
    /\ upc = "idle"
    /\ \A th \in 1..Len(threads) : threads[th].pc \in {"top", "dead"}
    /\ Tick

RaceNext ==
    \/ \E task_id \in TaskIds : RaceCreate(task_id)
    \/ \E session_id \in SessionIds : RaceStart(session_id)
    \/ CompleteEnter
    \/ CompleteBody
    \/ CompleteCleanup
    \/ \E th \in 1..Len(threads) : RaceTimerStep(th)
    \/ \E th \in 1..Len(threads) : RaceTimerBody(th)
    \/ \E th \in 1..Len(threads) : RaceTimerCleanup(th)
    \/ RaceTick

RaceSpec == Init /\ [][RaceNext]_vars

\* ------------------------------------------------------------------ BreakRaceSpec
\* skip_break, snooze_break and handle_emergency_exit on the caller's thread
\* against _on_break_timer_complete on the break timer's thread.  The
\* callback is taken in two steps, its look at current_break_id and the rest;
\* each of the three methods is taken in two steps, up to the join inside
\* break_timer.stop() and from there on.  The join returns when the thread
\* has ended or after its timeout; no lock is held anywhere.
\* One session is started, once.
BreakActive(w) ==
    /\ w.mgr.is_in_break
    /\ w.mgr.current_break_id # None
    /\ w.mgr.active_session_id # None

\* break_timer.stop() up to its join
stop_until_join(w) ==
    IF w.mgr.break_timer # None THEN Timer_stop(w, w.mgr.break_timer) ELSE w

skip_break_head(w) ==
    LET bid == w.mgr.current_break_id
        sid == w.mgr.active_session_id
        w1 == [w EXCEPT !.breaks[bid].status = "skipped"]
        w2 == IF HasSession(w1, sid)
              THEN [w1 EXCEPT !.sessions[sid].breaks_skipped = @ + 1]
              ELSE w1
    IN stop_until_join(w2)

\* <<world, success>>
snooze_break_head(w, clock) ==
    LET r == snoozeBreak(w, w.mgr.current_break_id, w.mgr.active_session_id,
                         settings.normal_snooze_duration_minutes,
                         settings, clock)
    IN IF r[2] THEN <<stop_until_join(r[1]), TRUE>>
       ELSE <<[r[1] EXCEPT !.obs.snooze_refused = TRUE], FALSE>>

\* skip_break and snooze_break after break_timer.stop() has returned
break_end_tail(w, clock) ==
    LET w1 == _cleanup_break(w)
    IN IF w1.mgr.work_timer # None
       THEN Timer_resume(w1, w1.mgr.work_timer, clock)
       ELSE w1

emergency_exit_head(w) ==
    LET sid == w.mgr.active_session_id
    IN stop_until_join([w EXCEPT !.sessions[sid].emergency_exits = @ + 1])

\* handle_emergency_exit after break_timer.stop() has returned
emergency_exit_tail(w, clock) ==
    LET w2 == _cleanup_break(w)
        w3 == IF w2.mgr.is_in_cooldown /\ w2.mgr.cooldown_timer # None
              THEN [Timer_stop(w2, w2.mgr.cooldown_timer) EXCEPT
                       !.mgr.is_in_cooldown = FALSE,
                       !.mgr.cooldown_timer = None]
              ELSE w2
        t == w3.mgr.work_timer
    IN IF t # None /\ w3.timers[t].state = "running"
       THEN Timer_resume(w3, t, clock)
       ELSE w3

SkipEnter ==
    /\ upc = "idle"
    /\ Quiet
    /\ BreakActive(World)
    /\ Call(<<skip_break_head(World), FALSE>>)
    /\ upc' = "break_end_join"
    /\ UNCHANGED <<now, settings>>

SnoozeEnter ==
    /\ upc = "idle"
    /\ Quiet
    /\ BreakActive(World)
    /\ LET r == snooze_break_head(World, now)
       IN /\ Call(<<r[1], FALSE>>)
          /\ upc' = IF r[2] THEN "break_end_join" ELSE "idle"
    /\ UNCHANGED <<now, settings>>

BreakEndLeave ==
    /\ upc = "break_end_join"
    /\ Commit(break_end_tail(World, now))
    /\ upc' = "idle"
    /\ UNCHANGED <<now, settings, calls>>

ExitEnter ==
    /\ upc = "idle"
    /\ Quiet
    /\ mgr.active_session_id # None
    /\ HasSession(World, mgr.active_session_id)
    /\ mgr.is_in_break /\ mgr.break_timer # None
    /\ Call(<<emergency_exit_head(World), FALSE>>)
    /\ upc' = "exit_join"
    /\ UNCHANGED <<now, settings>>

ExitLeave ==
    /\ upc = "exit_join"
    /\ Commit(emergency_exit_tail(World, now))
    /\ upc' = "idle"
    /\ UNCHANGED <<now, settings, calls>>

\* one pass of a timer loop, stopping after the look at current_break_id
\* when the pass ends in _on_break_timer_complete
BreakRaceTimerStep(th) ==
    /\ threads[th].pc = "top"
    /\ ~threads[th].polled
    /\ LET t    == threads[th].timer
           head == IterationHead(World, th, now)
       IN IF IterationCompletes(World, th, now) /\ timers[t].kind = "break"
          THEN Commit([head EXCEPT
                  !.threads[th].pc = IF head.mgr.current_break_id = None
                                     THEN "dead" ELSE "btc_body",
                  !.threads[th].polled = TRUE])
          ELSE Commit([RunIteration(World, th, now) EXCEPT
                          !.threads[th].polled = TRUE])
    /\ UNCHANGED <<now, settings, upc, calls>>

BreakRaceTimerBody(th) ==
    /\ threads[th].pc = "btc_body"
    /\ Commit([break_complete_body(World, now) EXCEPT !.threads[th].pc = "dead"])
    /\ UNCHANGED <<now, settings, upc, calls>>

BreakRaceNext ==
    \/ \E task_id \in TaskIds : RaceCreate(task_id)
    \/ \E session_id \in SessionIds : RaceStart(session_id)
    \/ SkipEnter
    \/ SnoozeEnter
    \/ BreakEndLeave
    \/ ExitEnter
    \/ ExitLeave
    \/ \E th \in 1..Len(threads) : BreakRaceTimerStep(th)
    \/ \E th \in 1..Len(threads) : BreakRaceTimerBody(th)
    \/ RaceTick

BreakRaceSpec == Init /\ [][BreakRaceNext]_vars

\* ------------------------------------------------------------------ TimerSpec
\* One timer of each class on its own, its callbacks plain observers, with
\* the loop of _run taken statement by statement and stop() in its three
\* steps, so that the caller's thread and the background thread interleave.
\* obs.fired: the callbacks entered so far; obs.late: those entered after a
\* stop() had returned and before the caller's next call; obs.break_fired[i]:
\* how often on_break_time was entered for offset i; obs.early: the offsets
\* for which it was entered before the timer had run that long; obs.ran: the
\* time the timer has spent Running since the last start() that took effect;
\* obs.warnings: how often on_warning was entered; obs.warned_early: whether
\* it was entered with more than warning_seconds of running time left.
\* An observer's on_tick or on_warning may raise: SessionManager hands them to
\* the timer through wrappers that catch nothing.
TimerKinds == {"base", "work", "break"}

\* the offset lists a WorkTimer is built with, in seconds
WorkOffsets ==
    { <<SecondsPerMinute>>,
      <<SecondsPerMinute, 2 * SecondsPerMinute>>,
      <<2 * SecondsPerMinute, 2 * SecondsPerMinute>> }

TimerInit ==
    /\ now = 0
    /\ settings \in SettingsRows
    /\ sessions = <<>>
    /\ breaks = <<>>
    /\ mgr = NewManager
    /\ \E kind \in TimerKinds, break_times \in WorkOffsets :
          timers = << NewTimer(kind, 2,
                        IF kind = "work" THEN break_times ELSE <<>>) >>
    /\ threads = <<>>
    /\ obs = [fired |-> {}, late |-> {}, break_fired |-> <<0, 0>>,
              early |-> {}, ran |-> 0, warnings |-> 0, warned_early |-> FALSE]
    /\ upc = "idle"
    /\ calls = 0

Put(w) ==
    /\ timers' = w.timers
    /\ threads' = [th \in 1..Len(w.threads) |->
                     IF w.threads[th].pc = "dead" THEN DeadThread
                     ELSE w.threads[th]]
    /\ obs' = w.obs
    /\ UNCHANGED <<now, settings, sessions, breaks, mgr>>

\* a callback is entered
Fire(w, name) ==
    [w EXCEPT !.obs.fired = @ \cup {name},
              !.obs.late = IF upc = "after_stop" THEN @ \cup {name} ELSE @]

\* the caller begins a call
Begin ==
    /\ upc \in {"idle", "after_stop"}
    /\ calls < MaxTimerCalls
    /\ calls' = calls + 1

T_Start ==
    /\ Begin
    /\ Put([Timer_start(World, 1, now) EXCEPT
                !.obs.late = {},
                !.obs.ran = IF timers[1].state = "running" THEN @ ELSE 0])
    /\ upc' = "idle"

T_Pause ==
    /\ Begin
    /\ Put([Timer_pause(World, 1, now) EXCEPT !.obs.late = {}])
    /\ upc' = "idle"

T_Resume ==
    /\ Begin
    /\ Put([Timer_resume(World, 1, now) EXCEPT !.obs.late = {}])
    /\ upc' = "idle"

\* stop(): self.state = STOPPED
T_StopState ==
    /\ Begin
    /\ Put([World EXCEPT !.timers[1].state = "stopped", !.obs.late = {}])
    /\ upc' = "stop_event"

\* stop(): self._stop_event.set()
T_StopEvent ==
    /\ upc = "stop_event"
    /\ Put([World EXCEPT !.timers[1].stop_event = TRUE])
    /\ upc' = "stop_join"
    /\ UNCHANGED calls

\* where a thread stays a second or longer: sleep(1), or inside a callback
LongPcs == {"sleep", "cb_tick", "cb_warning", "cb_break_time", "cb_complete"}

\* stop(): join(timeout = 1.0) returns because the thread has ended, or
\* because the second has passed with the thread still in LongPcs
T_StopJoin ==
    /\ upc = "stop_join"
    /\ LET th == timers[1].thread
       IN IF th = None THEN TRUE
          ELSE threads[th].pc \in LongPcs \cup {"dead"}
    /\ upc' = "after_stop"
    /\ UNCHANGED <<now, settings, sessions, breaks, mgr, timers, threads, obs, calls>>

\* reset(): the three steps of stop(), then the fields are cleared
T_ResetStopState ==
    /\ Begin
    /\ Put([World EXCEPT !.timers[1].state = "stopped", !.obs.late = {}])
    /\ upc' = "reset_event"

T_ResetStopEvent ==
    /\ upc = "reset_event"
    /\ Put([World EXCEPT !.timers[1].stop_event = TRUE])
    /\ upc' = "reset_join"
    /\ UNCHANGED calls

T_ResetStopJoin ==
    /\ upc = "reset_join"
    /\ LET th == timers[1].thread
       IN IF th = None THEN TRUE
          ELSE threads[th].pc \in LongPcs \cup {"dead"}
    /\ upc' = "reset_fields"
    /\ UNCHANGED <<now, settings, sessions, breaks, mgr, timers, threads, obs, calls>>

T_ResetFields ==
    /\ upc = "reset_fields"
    /\ Put([World EXCEPT !.timers[1].start_monotonic = NoTime,
                         !.timers[1].pause_monotonic = NoTime,
                         !.timers[1].paused_duration = 0,
                         !.timers[1].elapsed_seconds = 0,
                         !.timers[1].state = "stopped"])
    /\ upc' = "idle"
    /\ UNCHANGED calls

\* the thread moves on
Goto(w, th, pc) == [w EXCEPT !.threads[th].pc = pc]

\* while not self._stop_event.is_set():
L_Top(th) ==
    /\ threads[th].pc = "top"
    /\ Put(Goto(World, th,
            IF timers[threads[th].timer].stop_event THEN "dead" ELSE "state"))
    /\ UNCHANGED <<upc, calls>>

\* if self.state == RUNNING: ... else: time.sleep(0.1)
L_State(th) ==
    /\ threads[th].pc = "state"
    /\ Put(Goto(World, th,
            IF timers[threads[th].timer].state = "running"
            THEN "elapsed" ELSE "top"))
    /\ UNCHANGED <<upc, calls>>

\* self.elapsed_seconds = self.get_elapsed_seconds()
L_Elapsed(th) ==
    /\ threads[th].pc = "elapsed"
    /\ LET t == threads[th].timer
       IN Put(Goto([World EXCEPT !.timers[t].elapsed_seconds =
                                    get_elapsed_seconds(timers[t], now)],
                   th,
                   CASE timers[t].kind = "work"  -> "break_check"
                     [] timers[t].kind = "break" -> "warning"
                     [] OTHER                    -> "complete_check"))
    /\ UNCHANGED <<upc, calls>>

\* WorkTimer: break_index = self.check_break_time(); on_break_time(break_index)
L_BreakCheck(th) ==
    /\ threads[th].pc = "break_check"
    /\ LET t == threads[th].timer
           i == check_break_time(timers[t], now)
       IN IF i = None THEN Put(Goto(World, th, "complete_check"))
          ELSE Put(Goto(Fire([World EXCEPT
                                !.timers[t].triggered_breaks = @ \cup {i},
                                !.obs.break_fired[i] = @ + 1,
                                !.obs.early =
                                    IF obs.ran < timers[t].break_times[i]
                                    THEN @ \cup {i} ELSE @],
                             "break_time"),
                        th, "cb_break_time"))
    /\ UNCHANGED <<upc, calls>>

\* BreakTimer: the warning, once, when remaining <= warning_seconds
L_Warning(th) ==
    /\ threads[th].pc = "warning"
    /\ LET t == threads[th].timer
       IN IF WarningCheck(World, t, now) = World
          THEN Put(Goto(World, th, "complete_check"))
          ELSE Put(Goto(Fire([WarningCheck(World, t, now) EXCEPT
                                !.obs.warnings = @ + 1,
                                !.obs.warned_early =
                                    \/ @
                                    \/ timers[t].duration_seconds - obs.ran
                                           > WarningSeconds],
                             "warning"),
                        th, "cb_warning"))
    /\ UNCHANGED <<upc, calls>>

\* if self.elapsed_seconds >= self.duration_seconds: ... else on_tick(...)
L_CompleteCheck(th) ==
    /\ threads[th].pc = "complete_check"
    /\ LET t == threads[th].timer
       IN IF timers[t].elapsed_seconds >= timers[t].duration_seconds
          THEN Put(Goto(World, th, "set_completed"))
          ELSE Put(Goto(Fire(World, "tick"), th, "cb_tick"))
    /\ UNCHANGED <<upc, calls>>

\* self.state = COMPLETED; self.on_complete()
L_SetCompleted(th) ==
    /\ threads[th].pc = "set_completed"
    /\ Put(Goto(Fire([World EXCEPT !.timers[threads[th].timer].state =
                                      "completed"],
                      "complete"),
                 th, "cb_complete"))
    /\ UNCHANGED <<upc, calls>>

\* a callback returns: on to the completion check, to sleep(1), or out of
\* the loop
L_Return(th) ==
    /\ threads[th].pc \in {"cb_tick", "cb_warning", "cb_break_time", "cb_complete"}
    /\ Put(Goto(World, th,
            CASE threads[th].pc = "cb_tick"     -> "sleep"
              [] threads[th].pc = "cb_complete" -> "dead"
              [] OTHER                          -> "complete_check"))
    /\ UNCHANGED <<upc, calls>>

\* the callbacks of an observer that the manager passes on unguarded
ObserverPcs == {"cb_tick", "cb_warning"}

\* an exception leaves the callback the thread is in: it ends the loop at
\* "except Exception" of _run, which sets the state to STOPPED
ObserverRaises(w, th) ==
    [w EXCEPT !.timers[w.threads[th].timer].state = "stopped",
              !.threads[th].pc = "dead"]

L_Raise(th) ==
    /\ threads[th].pc \in ObserverPcs
    /\ Put(ObserverRaises(World, th))
    /\ UNCHANGED <<upc, calls>>

\* time.sleep(1) ends
L_Wake(th) ==
    /\ threads[th].pc = "sleep"
    /\ Put(Goto(World, th, "top"))
    /\ UNCHANGED <<upc, calls>>

\* a minute passes while every thread sleeps or is inside a callback and the
\* caller is not inside stop() or reset()
T_Tick ==
    /\ now < MaxMinutes * SecondsPerMinute
    /\ upc \in {"idle", "after_stop"}
    /\ \A th \in 1..Len(threads) : threads[th].pc \in LongPcs \cup {"dead"}
    /\ now' = now + SecondsPerMinute
    /\ obs' = [obs EXCEPT !.ran = IF timers[1].state = "running"
                                  THEN @ + SecondsPerMinute ELSE @]
    /\ UNCHANGED <<settings, sessions, breaks, mgr, timers, threads, upc, calls>>

TimerNext ==
    \/ T_Start
    \/ T_Pause
    \/ T_Resume
    \/ T_StopState
    \/ T_StopEvent
    \/ T_StopJoin
    \/ T_ResetStopState
    \/ T_ResetStopEvent
    \/ T_ResetStopJoin
    \/ T_ResetFields
    \/ \E th \in 1..Len(threads) : L_Top(th)
    \/ \E th \in 1..Len(threads) : L_State(th)
    \/ \E th \in 1..Len(threads) : L_Elapsed(th)
    \/ \E th \in 1..Len(threads) : L_BreakCheck(th)
    \/ \E th \in 1..Len(threads) : L_Warning(th)
    \/ \E th \in 1..Len(threads) : L_CompleteCheck(th)
    \/ \E th \in 1..Len(threads) : L_SetCompleted(th)
    \/ \E th \in 1..Len(threads) : L_Return(th)
    \/ \E th \in 1..Len(threads) : L_Raise(th)
    \/ \E th \in 1..Len(threads) : L_Wake(th)
    \/ T_Tick

TimerSpec == TimerInit /\ [][TimerNext]_vars

\* ------------------------------------------------------------------ SchedulerSpec
\* The functions of core/scheduler.py and the mode policy of
\* core/mode_controller.py, each called once on arguments drawn at the start.
\* obs.fn names the function, obs holds its arguments, and after the call
\* obs.returned is set and obs.result is what it returned.  For
\* redistribute_breaks_after_snooze the session and its pending breaks are
\* the stored rows and the clock is the time of the call.
ModeTags == Modes \cup {"unknown"}

Durations == 0..MaxDuration

\* settings rows with the intervals unset (0) and set, skipping on and off
SchedulerSettingsRows ==
    [ normal_work_interval_minutes   : {0, 2, 7},
      normal_break_duration_minutes  : {1},
      normal_snooze_duration_minutes : {1},
      strict_work_interval_minutes   : {0, 5},
      strict_break_duration_minutes  : {1},
      strict_cooldown_minutes        : {1},
      focused_mandatory_break_minutes: {2},
      max_snooze_passes              : {1},
      snooze_redistributes_breaks    : {TRUE},
      allow_skip_in_normal_mode      : BOOLEAN ]

\* the lists handed to validate_break_schedule
RECURSIVE ListsUpTo(_)
ListsUpTo(n) ==
    IF n = 0 THEN {<<>>}
    ELSE ListsUpTo(n - 1) \cup
         {Append(l, x) : l \in {m \in ListsUpTo(n - 1) : Len(m) = n - 1},
                         x \in 0..MaxOffset}

\* a session row as create_session writes it, started at time 0
PlannedSession(planned_duration_minutes) ==
    [ task_id |-> 1, start_time |-> 0, end_time |-> NoTime,
      planned_duration_minutes |-> planned_duration_minutes,
      actual_duration_minutes |-> NoTime,
      mode |-> "normal", status |-> "in_progress",
      breaks_taken |-> 0, breaks_snoozed |-> 0, breaks_skipped |-> 0,
      extended_count |-> 0, emergency_exits |-> 0,
      snooze_passes_remaining |-> SchemaDefaultPasses ]

\* the clock readings at which redistribution is asked for: every half minute
HalfMinute == SecondsPerMinute \div 2

SchedulerInit ==
    /\ mgr = NewManager
    /\ timers = <<>>
    /\ threads = <<>>
    /\ upc = "idle"
    /\ calls = 0
    /\ \/ /\ settings \in SchedulerSettingsRows
          /\ \E mode \in ModeTags, d \in Durations :
                obs = [fn |-> "calculate_break_schedule", mode |-> mode,
                       work_duration_minutes |-> d, returned |-> FALSE]
          /\ now = 0 /\ sessions = <<>> /\ breaks = <<>>
       \/ /\ settings \in SettingsRows
          /\ \E break_times \in ListsUpTo(MaxLen), d \in 0..(MaxOffset + 1) :
                obs = [fn |-> "validate_break_schedule",
                       break_times |-> break_times,
                       work_duration_minutes |-> d, returned |-> FALSE]
          /\ now = 0 /\ sessions = <<>> /\ breaks = <<>>
       \/ /\ settings \in SchedulerSettingsRows
          /\ \E mode \in ModeTags :
                obs = [fn |-> "mode_policy", mode |-> mode, returned |-> FALSE]
          /\ now = 0 /\ sessions = <<>> /\ breaks = <<>>
       \/ /\ settings \in SettingsRows
          /\ obs = [fn |-> "redistribute_breaks_after_snooze", session_id |-> 1,
                    returned |-> FALSE]
          /\ \E planned \in (1..MaxPlanned) \cup {LongPlanned},
                n \in (0..MaxPending) \cup {ManyPending},
                k \in 0..(2 * MaxPlanned + 2) :
                /\ sessions = <<PlannedSession(planned)>>
                /\ breaks = [i \in 1..n |->
                                NewBreak(1, i * SecondsPerMinute, 1)]
                /\ now = k * HalfMinute
       \/ /\ settings \in SettingsRows
          /\ \E mode \in ModeTags, session_id \in 0..2, db \in BOOLEAN :
                obs = [fn |-> "can_snooze_break", mode |-> mode,
                       session_id |-> session_id, db |-> db,
                       returned |-> FALSE]
          /\ \E mode \in Modes, passes \in 0..SchemaDefaultPasses :
                sessions = << [PlannedSession(2) EXCEPT
                                 !.mode = mode,
                                 !.snooze_passes_remaining = passes] >>
          /\ now = 0 /\ breaks = <<>>

Returned(result) ==
    /\ ~obs.returned
    /\ obs' = [field \in (DOMAIN obs) \cup {"result"} |->
                 CASE field = "result"   -> result
                   [] field = "returned" -> TRUE
                   [] OTHER              -> obs[field]]
    /\ UNCHANGED <<now, settings, sessions, breaks, mgr, timers, threads,
                   upc, calls>>

CalculateBreakSchedule ==
    /\ obs.fn = "calculate_break_schedule"
    /\ Returned(calculate_break_schedule(obs.mode, obs.work_duration_minutes,
                                         settings))

ValidateBreakSchedule ==
    /\ obs.fn = "validate_break_schedule"
    /\ Returned(validate_break_schedule(obs.break_times,
                                        obs.work_duration_minutes))

RedistributeBreaksAfterSnooze ==
    /\ obs.fn = "redistribute_breaks_after_snooze"
    /\ Returned(redistribute_breaks_after_snooze(World, obs.session_id, now))

\* what the mode policy answers for one mode
ModePolicy(mode, st) ==
    [ can_skip_break         |-> can_skip_break(mode, st),
      can_extend_session     |-> can_extend_session(mode),
      requires_cooldown      |-> requires_cooldown(mode),
      get_cooldown_duration  |-> get_cooldown_duration(mode, st),
      has_breaks_during_work |-> has_breaks_during_work(mode) ]

AskModePolicy ==
    /\ obs.fn = "mode_policy"
    /\ Returned(ModePolicy(obs.mode, settings))

CanSnoozeBreak ==
    /\ obs.fn = "can_snooze_break"
    /\ Returned(can_snooze_break(obs.mode, obs.session_id, obs.db, World))

SchedulerNext ==
    \/ CalculateBreakSchedule
    \/ ValidateBreakSchedule
    \/ RedistributeBreaksAfterSnooze
    \/ AskModePolicy
    \/ CanSnoozeBreak

SchedulerSpec == SchedulerInit /\ [][SchedulerNext]_vars

\* ------------------------------------------------------------------ properties
\* the session the manager holds, and whether it is on a break / in cooldown
ActiveSession == sessions[mgr.active_session_id]

InBreak ==
    /\ mgr.active_session_id # None
    /\ mgr.is_in_break
    /\ mgr.current_break_id # None
    /\ mgr.break_timer # None

InCooldown ==
    /\ mgr.active_session_id # None
    /\ mgr.is_in_cooldown
    /\ mgr.cooldown_timer # None

\* C1: a start_session call made while a session is active raises and leaves
\* the manager's fields (active_session_id, work_timer, the break and cooldown
\* flags) and every timer as they were.
C1_StartWhileActiveChangesNothing ==
    mgr.active_session_id # None =>
        \A session_id \in SessionIds :
            LET r == start_session(World, session_id, now)
            IN r[2] /\ r[1].mgr = mgr /\ r[1].timers = timers

\* C2: an emergency exit taken during a break, the work timer paused, leaves
\* the break timer stopped, is_in_break false, current_break_id and
\* break_timer cleared, and the work timer running again.
C2_ExitDuringBreakResumesWork ==
    (InBreak /\ mgr.work_timer # None
        /\ timers[mgr.work_timer].state = "paused") =>
        LET w == handle_emergency_exit(World, now)[1]
        IN /\ w.timers[mgr.break_timer].state = "stopped"
           /\ ~w.mgr.is_in_break
           /\ w.mgr.current_break_id = None
           /\ w.mgr.break_timer = None
           /\ w.mgr.work_timer = mgr.work_timer
           /\ w.timers[mgr.work_timer].state = "running"

\* C3: an emergency exit taken during cooldown leaves the cooldown timer
\* stopped and is_in_cooldown false, does not terminate the session, and puts
\* the manager back in work with the work timer running.
C3_ExitDuringCooldownBackToWork ==
    (InCooldown /\ mgr.work_timer # None) =>
        LET w == handle_emergency_exit(World, now)[1]
        IN /\ w.timers[mgr.cooldown_timer].state = "stopped"
           /\ ~w.mgr.is_in_cooldown
           /\ w.mgr.active_session_id = mgr.active_session_id
           /\ w.sessions[mgr.active_session_id].status = ActiveSession.status
           /\ w.mgr.work_timer = mgr.work_timer
           /\ w.timers[mgr.work_timer].state = "running"

\* C4: once stop() has returned the timer is Stopped and none of its
\* callbacks (tick, warning, break-time, complete) is entered, whatever the
\* interleaving of stop() with the background loop.
C4_StoppedAndSilentAfterStop ==
    upc = "after_stop" =>
        /\ timers[1].state = "stopped"
        /\ obs.late = {}

\* C5: every break row a successful extend_session adds lies strictly after
\* the planned duration the session had before the call and strictly before
\* the new one, and consecutive new rows are one work interval apart.
C5_ExtendPlacesNewBreaksInAddedTail ==
    \A additional_minutes \in ExtendMinutes :
        LET r == extend_session(World, additional_minutes, now)
        IN ~r[2] =>
            LET w        == r[1]
                sid      == mgr.active_session_id
                old      == ActiveSession.planned_duration_minutes
                new      == w.sessions[sid].planned_duration_minutes
                interval == get_work_interval_for_mode(ActiveSession.mode, settings)
                created  == (Len(breaks) + 1)..Len(w.breaks)
                offset(b) == w.breaks[b].scheduled_time - ActiveSession.start_time
            IN \A b \in created :
                  /\ offset(b) > old * SecondsPerMinute
                  /\ offset(b) < new * SecondsPerMinute
                  /\ (b + 1) \in created =>
                        offset(b + 1) - offset(b) = interval * SecondsPerMinute

\* C6: at most one persisted session has status in_progress.
C6_AtMostOneInProgress ==
    Cardinality({sid \in 1..Len(sessions) :
                    sessions[sid].status = "in_progress"}) <= 1

\* the pass of thread th's loop that would run now completes a work timer
WorkCompletes(th) ==
    /\ threads[th].pc = "top"
    /\ timers[threads[th].timer].kind = "work"
    /\ IterationCompletes(World, th, now)

\* the pass of thread th's loop that would run now completes a cooldown timer
CooldownCompletes(th) ==
    /\ threads[th].pc = "top"
    /\ timers[threads[th].timer].kind = "cooldown"
    /\ IterationCompletes(World, th, now)

\* C8: when the work timer of a strict or focused session completes, a
\* cooldown timer of get_cooldown_duration(mode, settings) minutes starts and
\* the session stays in_progress, and no timer but a completing cooldown
\* timer ends the session; when the work timer of a normal session completes
\* the session is completed, and a normal session is never in cooldown.
\* (Stated for the only session there is, so that a work timer is its timer.)
C8_CooldownFollowsWorkByMode ==
    /\ (mgr.active_session_id # None /\ ActiveSession.mode = "normal")
           => ~mgr.is_in_cooldown
    /\ \A th \in 1..Len(threads) :
          (Len(sessions) = 1 /\ sessions[1].status = "in_progress"
              /\ threads[th].pc = "top") =>
             LET w    == RunIteration(World, th, now)
                 mode == sessions[1].mode
                 ct   == w.mgr.cooldown_timer
             IN /\ (WorkCompletes(th) /\ requires_cooldown(mode)) =>
                      /\ w.mgr.is_in_cooldown
                      /\ ct # None
                      /\ w.timers[ct].duration_minutes =
                             get_cooldown_duration(mode, settings)
                      /\ w.timers[ct].state = "running"
                      /\ w.sessions[1].status = "in_progress"
                /\ (WorkCompletes(th) /\ ~requires_cooldown(mode)) =>
                      /\ w.sessions[1].status = "completed"
                      /\ ~w.mgr.is_in_cooldown
                /\ (requires_cooldown(mode) /\ ~CooldownCompletes(th)) =>
                      w.sessions[1].status = "in_progress"

\* C7: whatever the interleaving of complete_session with the completion
\* callbacks, the one session that was started is finalized once: the streak
\* collaborator and on_session_complete are each invoked at most once.
C7_FinalizedOnce ==
    /\ obs.session_complete <= 1
    /\ \A sid \in 1..Len(sessions) : obs.streak_updates[sid] <= 1

\* C9: a session's snooze_passes_remaining is always within
\* 0..settings.max_snooze_passes, and a snooze_break that succeeds lowers it
\* by exactly one.
C9_SnoozePassesWithinLimit ==
    /\ \A sid \in 1..Len(sessions) :
          sessions[sid].snooze_passes_remaining \in 0..settings.max_snooze_passes
    /\ InBreak =>
          LET w == snooze_break(World, now)[1]
          IN ~w.mgr.is_in_break =>
                w.sessions[mgr.active_session_id].snooze_passes_remaining
                    = ActiveSession.snooze_passes_remaining - 1

\* C10: snooze_break during a break with no pass left raises nothing and
\* changes nothing the program holds: the break stays in progress, its timer
\* running, the work timer as it was, and the pass count, breaks_snoozed and
\* the break's scheduled time and status are as before.
C10_SnoozeWithoutPassChangesNothing ==
    (InBreak /\ ActiveSession.snooze_passes_remaining = 0) =>
        LET r == snooze_break(World, now)
        IN /\ ~r[2]
           /\ r[1].mgr = mgr
           /\ r[1].timers = timers
           /\ r[1].threads = threads
           /\ r[1].sessions = sessions
           /\ r[1].breaks = breaks

\* C10 happens: a snooze was refused during a break that is in progress with
\* its timer running and the work timer paused
C10_Witness ==
    /\ obs.snooze_refused
    /\ InBreak
    /\ ActiveSession.snooze_passes_remaining = 0
    /\ breaks[mgr.current_break_id].status = "in_progress"
    /\ timers[mgr.break_timer].state = "running"
    /\ mgr.work_timer # None
    /\ timers[mgr.work_timer].state = "paused"

\* a break is in progress: the manager holds its id and its timer
BreakInProgress ==
    /\ mgr.is_in_break
    /\ mgr.current_break_id # None
    /\ mgr.break_timer # None

\* the pass of thread th's loop that would run now completes the break timer
\* the manager holds
BreakCompletes(th) ==
    /\ threads[th].pc = "top"
    /\ threads[th].timer = mgr.break_timer
    /\ IterationCompletes(World, th, now)

\* snooze_break called now would be granted by the storage
SnoozeSucceeds ==
    /\ BreakInProgress
    /\ mgr.active_session_id # None
    /\ snoozeBreak(World, mgr.current_break_id, mgr.active_session_id,
                   settings.normal_snooze_duration_minutes, settings, now)[2]

\* the break sub-state is cleared and the manager's work timer is running
BreakEndedAndWorkRunning(w) ==
    /\ ~w.mgr.is_in_break
    /\ w.mgr.current_break_id = None
    /\ w.mgr.break_timer = None
    /\ w.mgr.work_timer # None
    /\ w.timers[w.mgr.work_timer].state = "running"

\* C11: when a break in progress ends, by its timer running out, by a
\* snooze_break that is granted or by skip_break, is_in_break is false,
\* current_break_id and break_timer are cleared and the work timer is running.
C11_BreakEndResumesWork ==
    BreakInProgress =>
        /\ \A th \in 1..Len(threads) :
              BreakCompletes(th) =>
                  BreakEndedAndWorkRunning(RunIteration(World, th, now))
        /\ SnoozeSucceeds =>
              BreakEndedAndWorkRunning(snooze_break(World, now)[1])
        /\ mgr.active_session_id # None =>
              BreakEndedAndWorkRunning(skip_break(World, now)[1])

\* the three break counters of a session row
BreakCounters(s) == <<s.breaks_taken, s.breaks_skipped, s.breaks_snoozed>>

\* C12: ending the break in progress changes one counter of the break's
\* session, by one: the break timer running out raises breaks_taken alone and
\* leaves the break completed, skip_break raises breaks_skipped alone and
\* leaves it skipped, a granted snooze_break raises breaks_snoozed alone and
\* leaves it snoozed; take_break changes nothing at all.
C12_OneCounterPerBreakEnd ==
    BreakInProgress =>
        LET bid == mgr.current_break_id
            sid == breaks[bid].session_id
            c   == BreakCounters(sessions[sid])
        IN /\ \A th \in 1..Len(threads) :
                 BreakCompletes(th) =>
                     LET w == RunIteration(World, th, now)
                     IN /\ BreakCounters(w.sessions[sid]) = <<c[1] + 1, c[2], c[3]>>
                        /\ w.breaks[bid].status = "completed"
           /\ mgr.active_session_id # None =>
                 LET w == skip_break(World, now)[1]
                 IN /\ BreakCounters(w.sessions[sid]) = <<c[1], c[2] + 1, c[3]>>
                    /\ w.breaks[bid].status = "skipped"
           /\ SnoozeSucceeds =>
                 LET w == snooze_break(World, now)[1]
                 IN /\ BreakCounters(w.sessions[sid]) = <<c[1], c[2], c[3] + 1>>
                    /\ w.breaks[bid].status = "snoozed"
           /\ take_break(World) = <<World, FALSE>>

\* the pass of thread th's loop that would run now finds a break offset of
\* its work timer reached and not yet triggered
BreakOffsetReached(th) ==
    LET t == threads[th].timer
    IN /\ threads[th].pc = "top"
       /\ timers[t].kind = "work"
       /\ ~timers[t].stop_event
       /\ timers[t].state = "running"
       /\ check_break_time(timers[t], now) # None

\* C13: when the work timer of the session reaches a break offset,
\* on_break_time has this effect.  With a pending break: the work timer is
\* paused, a break timer of the earliest pending break's duration is running,
\* that break is in_progress with actual_time now, the manager is in that
\* break and on_break_triggered has received its id.  With none: the work
\* timer keeps running and the manager, the breaks and the timers are as
\* before.
\* (Stated for the only session there is, so that a work timer is its timer.)
C13_BreakOffsetStartsEarliestPending ==
    \A th \in 1..Len(threads) :
        (Len(sessions) = 1 /\ sessions[1].status = "in_progress"
            /\ BreakOffsetReached(th)) =>
           LET t          == threads[th].timer
               w          == BreakCheck(World, t, now)
               next_break == getNextPendingBreak(World, 1)
               bt         == w.mgr.break_timer
           IN IF next_break # None
              THEN /\ w.timers[t].state = "paused"
                   /\ bt # None
                   /\ w.timers[bt].kind = "break"
                   /\ w.timers[bt].duration_minutes =
                          breaks[next_break].duration_minutes
                   /\ w.timers[bt].state = "running"
                   /\ w.breaks[next_break].status = "in_progress"
                   /\ w.breaks[next_break].actual_time = now
                   /\ w.mgr.is_in_break
                   /\ w.mgr.current_break_id = next_break
                   /\ w.obs.break_triggered = next_break
              ELSE /\ w.timers[t].state = "running"
                   /\ w.mgr = mgr
                   /\ w.breaks = breaks
                   /\ Len(w.timers) = Len(timers)

\* the loop of every thread of the timer has ended
LoopsEnded == \A th \in 1..Len(threads) : threads[th].pc = "dead"

\* start() has taken effect once and neither stop() nor reset() has been
\* called since: the caller has only paused and resumed
StartedOnceNeverStopped ==
    /\ Len(threads) = 1
    /\ ~timers[1].stop_event
    /\ upc = "idle"

\* C14: for a WorkTimer that is started once and then only paused and
\* resumed, its offset list never replaced, on_break_time is entered at most
\* once for each offset and never before the timer has run as long as the
\* offset says, and once the timer has run to completion it has been entered
\* for every offset that the elapsed time has reached.
C14_EachReachedOffsetFiresOnce ==
    (timers[1].kind = "work" /\ StartedOnceNeverStopped) =>
        /\ \A i \in 1..Len(timers[1].break_times) : obs.break_fired[i] <= 1
        /\ obs.early = {}
        /\ (timers[1].state = "completed" /\ LoopsEnded) =>
              \A i \in 1..Len(timers[1].break_times) :
                  get_elapsed_seconds(timers[1], now) >= timers[1].break_times[i]
                      => obs.break_fired[i] = 1

\* C15: an extend_session(n) that succeeds while the manager holds the work
\* timer of its normal-mode session raises planned_duration_minutes and the
\* timer's duration by n, raises extended_count by one, sets
\* snooze_passes_remaining to settings.max_snooze_passes, and changes nothing
\* else of the session row, of the manager or of the timer but its offset
\* list: the timer's state, its clock readings, its elapsed time, its
\* triggered indices and its thread are as they were, no timer is built and
\* no thread is started.
C15_ExtendAddsTimeKeepsTimerRunning ==
    \A additional_minutes \in ExtendMinutes :
        LET r == extend_session(World, additional_minutes, now)
        IN (~r[2] /\ mgr.work_timer # None) =>
            LET w   == r[1]
                sid == mgr.active_session_id
                t   == mgr.work_timer
            IN /\ ActiveSession.mode = "normal"
               /\ w.sessions[sid] =
                      [ActiveSession EXCEPT
                          !.planned_duration_minutes = @ + additional_minutes,
                          !.extended_count = @ + 1,
                          !.snooze_passes_remaining = settings.max_snooze_passes]
               /\ w.mgr = mgr
               /\ [w.timers[t] EXCEPT !.break_times = <<>>] =
                      [timers[t] EXCEPT
                          !.duration_minutes = @ + additional_minutes,
                          !.duration_seconds =
                              @ + additional_minutes * SecondsPerMinute,
                          !.break_times = <<>>]
               /\ get_elapsed_seconds(w.timers[t], now) =
                      get_elapsed_seconds(timers[t], now)
               /\ Len(w.timers) = Len(timers)
               /\ w.threads = threads

\* C15 happens: the session that started with two planned minutes has been
\* extended once, by one minute, after its first break was triggered and
\* skipped; the work timer runs on with its first index still triggered
C15_Witness ==
    /\ mgr.active_session_id # None
    /\ mgr.work_timer # None
    /\ ActiveSession.mode = "normal"
    /\ ActiveSession.extended_count = 1
    /\ ActiveSession.planned_duration_minutes = 3
    /\ ActiveSession.snooze_passes_remaining = settings.max_snooze_passes
    /\ timers[mgr.work_timer].duration_seconds = 3 * SecondsPerMinute
    /\ timers[mgr.work_timer].state = "running"
    /\ timers[mgr.work_timer].triggered_breaks = {1}
    /\ get_elapsed_seconds(timers[mgr.work_timer], now) = SecondsPerMinute

\* C16: extend_session raises when the manager has no active session and
\* when the active session is strict or focused, and then the sessions (with
\* planned_duration_minutes, extended_count, snooze_passes_remaining), the
\* stored breaks, the timers (with the work timer's duration and offsets),
\* the threads and the manager's fields are as before.
C16_ExtendRefusedChangesNothing ==
    (IF mgr.active_session_id = None THEN TRUE
     ELSE ActiveSession.mode \in {"strict", "focused"}) =>
        \A additional_minutes \in ExtendMinutes :
            LET r == extend_session(World, additional_minutes, now)
            IN /\ r[2]
               /\ r[1].sessions = sessions
               /\ r[1].breaks = breaks
               /\ r[1].timers = timers
               /\ r[1].threads = threads
               /\ r[1].mgr = mgr

\* C16 happens: a strict session is under way, its work timer running with a
\* break offset ahead and the break pending, and extend_session called now
\* raises
C16_Witness ==
    /\ mgr.active_session_id # None
    /\ mgr.work_timer # None
    /\ ActiveSession.mode = "strict"
    /\ ActiveSession.extended_count = 0
    /\ timers[mgr.work_timer].state = "running"
    /\ get_elapsed_seconds(timers[mgr.work_timer], now) = SecondsPerMinute
    /\ timers[mgr.work_timer].break_times # <<>>
    /\ PendingBreakIds(World, mgr.active_session_id) # {}
    /\ \A additional_minutes \in ExtendMinutes :
          extend_session(World, additional_minutes, now)[2]

\* C17: the timer's state moves along the edges of its state machine only.
\* start() changes something from Stopped only, and then the state is
\* Running; pause() acts from Running only, giving Paused; resume() acts from
\* Paused only, giving Running; the loop writes Completed over Running only;
\* so a Completed timer stays Completed until stop() or reset().
C17_StateMachineEdgesOnly ==
    LET state == timers[1].state
    IN /\ state # "stopped" => Timer_start(World, 1, now) = World
       /\ state # "running" => Timer_pause(World, 1, now) = World
       /\ state # "paused" => Timer_resume(World, 1, now) = World
       /\ state = "stopped" =>
             Timer_start(World, 1, now).timers[1].state = "running"
       /\ state = "running" =>
             Timer_pause(World, 1, now).timers[1].state = "paused"
       /\ state = "paused" =>
             Timer_resume(World, 1, now).timers[1].state = "running"
       /\ \A th \in 1..Len(threads) :
             threads[th].pc = "set_completed" => state = "running"

\* C18: a start() that puts the timer into Running leaves get_elapsed_seconds
\* at 0, on a fresh timer and on one started again after stop(), and the
\* elapsed time is never negative.
C18_ElapsedZeroAfterStart ==
    /\ get_elapsed_seconds(timers[1], now) >= 0
    /\ timers[1].state # "running" =>
          LET w == Timer_start(World, 1, now)
          IN w.timers[1].state = "running" =>
                get_elapsed_seconds(w.timers[1], now) = 0

\* C19: whenever the timer is Running or Paused, its elapsed time is the time
\* it has spent Running since start(): time spent Paused does not count and
\* a resume() goes on from the value before the pause.
C19_ElapsedIsTimeSpentRunning ==
    timers[1].state \in {"running", "paused"} =>
        get_elapsed_seconds(timers[1], now) = obs.ran

\* C20: complete_session called twice in a row on an active session does
\* what one call does.  The first call marks the session completed, invokes
\* update_streaks_after_session and on_session_complete once each and clears
\* active_session_id, the three timer references, current_break_id and both
\* flags; the second call raises nothing and changes nothing.
C20_CompleteTwiceIsCompleteOnce ==
    mgr.active_session_id # None =>
        LET sid    == mgr.active_session_id
            first  == complete_session(World)
            second == complete_session(first[1])
        IN /\ ~first[2]
           /\ first[1].sessions[sid].status = "completed"
           /\ first[1].obs.streak_updates[sid] = obs.streak_updates[sid] + 1
           /\ first[1].obs.session_complete = obs.session_complete + 1
           /\ first[1].mgr.active_session_id = None
           /\ first[1].mgr.work_timer = None
           /\ first[1].mgr.break_timer = None
           /\ first[1].mgr.cooldown_timer = None
           /\ ~first[1].mgr.is_in_break
           /\ ~first[1].mgr.is_in_cooldown
           /\ second = first

\* C20 happens: the caller has completed the one normal session during its
\* first break (the work timer had not run out: end_time was never written),
\* the collaborators were told once, the manager holds nothing, and
\* complete_session called again changes nothing
C20_Witness ==
    /\ Len(sessions) = 1
    /\ sessions[1].mode = "normal"
    /\ sessions[1].status = "completed"
    /\ sessions[1].end_time = NoTime
    /\ breaks[1].status = "in_progress"
    /\ obs.session_complete = 1
    /\ obs.streak_updates[1] = 1
    /\ mgr = NewManager
    /\ complete_session(World) = <<World, FALSE>>

\* C21: a handle_emergency_exit call made while a session is active raises
\* nothing, raises that session's emergency_exits by exactly one and leaves
\* its status and the manager's active_session_id as they were; with no
\* active session the call changes nothing.
C21_EmergencyExitCountsOnce ==
    LET r   == handle_emergency_exit(World, now)
        sid == mgr.active_session_id
    IN IF sid # None
       THEN /\ ~r[2]
            /\ r[1].sessions[sid].emergency_exits = sessions[sid].emergency_exits + 1
            /\ r[1].sessions[sid].status = sessions[sid].status
            /\ r[1].mgr.active_session_id = sid
            /\ \A other \in 1..Len(sessions) :
                  other # sid => r[1].sessions[other] = sessions[other]
       ELSE r = <<World, FALSE>>

\* C21 happens: the emergency exit was used twice in the active session, which
\* is still in progress and still the manager's session, and a third call
\* would count once more
C21_Witness ==
    /\ mgr.active_session_id # None
    /\ ActiveSession.emergency_exits = 2
    /\ ActiveSession.status = "in_progress"
    /\ handle_emergency_exit(World, now)[1].sessions[mgr.active_session_id]
           .emergency_exits = 3

\* C22: when redistribute_breaks_after_snooze is called on a session with
\* time remaining (planned minus elapsed minutes > 0) and at least one
\* pending break, every offset it returns is strictly greater than the
\* elapsed minutes.
C22_RedistributedOffsetsAfterNow ==
    (obs.fn = "redistribute_breaks_after_snooze" /\ obs.returned) =>
        LET elapsed_minutes ==
                calculate_elapsed_minutes(sessions[1].start_time, now)
            remaining == sessions[1].planned_duration_minutes - elapsed_minutes
        IN (remaining > 0 /\ PendingBreakIds(World, 1) # {}) =>
              /\ Len(obs.result) = Cardinality(PendingBreakIds(World, 1))
              /\ \A i \in 1..Len(obs.result) : obs.result[i] > elapsed_minutes

\* s is strictly increasing
StrictlyIncreasing(s) == \A i \in 1..(Len(s) - 1) : s[i] < s[i + 1]

\* C23: calculate_break_schedule(mode, d, settings) returns the empty list for
\* focused mode, for d below the minimum work duration and for d below the
\* mode's work interval, and otherwise exactly the multiples k * interval
\* (k >= 1) of the mode's work interval that are strictly less than d, in
\* increasing order; so every result is strictly increasing with its first
\* element > 0 and its last < d, and validate_break_schedule accepts it.
C23_ScheduleIsMultiplesBelowDuration ==
    (obs.fn = "calculate_break_schedule" /\ obs.returned) =>
        LET mode     == obs.mode
            d        == obs.work_duration_minutes
            out      == obs.result
            interval == get_work_interval_for_mode(mode, settings)
        IN /\ IF mode = "focused" \/ d < MIN_WORK_DURATION_MINUTES \/ d < interval
              THEN out = <<>>
              ELSE {out[i] : i \in 1..Len(out)} =
                       {k * interval : k \in 1..d} \cap 1..(d - 1)
           /\ StrictlyIncreasing(out)
           /\ out # <<>> => (out[1] > 0 /\ out[Len(out)] < d)
           /\ validate_break_schedule(out, d)

\* C23 happens: a normal session of 50 minutes with the interval left unset
\* (so 25 minutes) gets the one offset 25, the multiple that falls on the end
\* left out
C23_Witness ==
    /\ obs.fn = "calculate_break_schedule"
    /\ obs.returned
    /\ obs.mode = "normal"
    /\ settings.normal_work_interval_minutes = 0
    /\ obs.work_duration_minutes = 2 * NORMAL_WORK_INTERVAL_MINUTES
    /\ obs.result = <<NORMAL_WORK_INTERVAL_MINUTES>>

\* C24: validate_break_schedule(list, d) returns true if and only if the list
\* is empty, or is strictly increasing with its first element > 0 and its
\* last element < d.
C24_ValidIffStrictlyInsideDuration ==
    (obs.fn = "validate_break_schedule" /\ obs.returned) =>
        LET list == obs.break_times
            d    == obs.work_duration_minutes
        IN obs.result <=>
              \/ list = <<>>
              \/ /\ StrictlyIncreasing(list)
                 /\ list[1] > 0
                 /\ list[Len(list)] < d

\* C24 happens: a list in order with a repeated offset, its ends inside the
\* duration, has been refused
C24_Witness ==
    /\ obs.fn = "validate_break_schedule"
    /\ obs.returned
    /\ obs.break_times = <<1, 2, 2>>
    /\ obs.work_duration_minutes = 4
    /\ obs.result = FALSE

\* C27: the mode policy.  Skipping is allowed in normal mode only, and there
\* only when allow_skip_in_normal_mode is set; extending is allowed in normal
\* mode only; a cooldown is required in strict and in focused mode and in no
\* other, lasting strict_cooldown_minutes and focused_mandatory_break_minutes
\* respectively and 0 for normal; interim breaks exist in normal and in
\* strict mode and in no other; a mode that is none of the three gets every
\* permission false and cooldown 0.
C27_ModePolicyTable ==
    (obs.fn = "mode_policy" /\ obs.returned) =>
        LET mode == obs.mode
            p    == obs.result
        IN /\ p.can_skip_break <=>
                  (mode = "normal" /\ settings.allow_skip_in_normal_mode)
           /\ p.can_extend_session <=> mode = "normal"
           /\ p.requires_cooldown <=> mode \in {"strict", "focused"}
           /\ mode = "strict" =>
                  p.get_cooldown_duration = settings.strict_cooldown_minutes
           /\ mode = "focused" =>
                  p.get_cooldown_duration = settings.focused_mandatory_break_minutes
           /\ mode = "normal" => p.get_cooldown_duration = 0
           /\ p.has_breaks_during_work <=> mode \in {"normal", "strict"}
           /\ mode \notin Modes =>
                  /\ ~p.can_skip_break
                  /\ ~p.can_extend_session
                  /\ ~p.requires_cooldown
                  /\ ~p.has_breaks_during_work
                  /\ p.get_cooldown_duration = 0

\* C27 happens: the policy has been asked about normal mode with skipping
\* switched off in the settings, and has answered: no skipping, extending
\* allowed, no cooldown, interim breaks
C27_Witness ==
    /\ obs.fn = "mode_policy"
    /\ obs.returned
    /\ obs.mode = "normal"
    /\ ~settings.allow_skip_in_normal_mode
    /\ ~obs.result.can_skip_break
    /\ obs.result.can_extend_session
    /\ ~obs.result.requires_cooldown
    /\ obs.result.has_breaks_during_work

\* C25: when an observer's callback (on_work_tick, on_break_tick,
\* on_break_warning, on_cooldown_tick) raises, the timer that delivered it
\* keeps Running with its loop alive, and the manager, the sessions and the
\* breaks are as before.
C25_ObserverFaultLeavesTimerRunning ==
    \A th \in 1..Len(threads) :
        (threads[th].pc \in ObserverPcs
            /\ timers[threads[th].timer].state = "running") =>
           LET w == ObserverRaises(World, th)
           IN /\ w.timers[threads[th].timer].state = "running"
              /\ w.threads[th].pc # "dead"
              /\ w.mgr = mgr
              /\ w.sessions = sessions
              /\ w.breaks = breaks

\* C26: for a BreakTimer that is started once and then only paused and
\* resumed, on_warning is entered at most once, never while more than
\* warning_seconds of running time remain, and by the time the timer has
\* completed it has been entered exactly once.
C26_WarningOnceBeforeCompletion ==
    (timers[1].kind = "break" /\ StartedOnceNeverStopped) =>
        /\ obs.warnings <= 1
        /\ ~obs.warned_early
        /\ obs.warnings = 1 <=> timers[1].warning_triggered
        /\ timers[1].state = "completed" => obs.warnings = 1

\* C26 happens: the break timer was paused and resumed before the warning
\* was due, then ran to completion, and on_warning was entered once
C26_Witness ==
    /\ timers[1].kind = "break"
    /\ StartedOnceNeverStopped
    /\ timers[1].state = "completed"
    /\ LoopsEnded
    /\ timers[1].paused_duration > 0
    /\ obs.warnings = 1
    /\ "warning" \in obs.fired
    /\ "complete" \in obs.fired

\* C28: create_session with an unknown task, or with no settings row, raises
\* and persists no session and no break; create_session, raising or not,
\* leaves the manager, the timers and the threads as they were, so it never
\* makes a session active; start_session with an unknown session id raises,
\* leaves active_session_id and work_timer unset, builds no timer and starts
\* no thread.
C28_BadCreateOrStartLeavesNothing ==
    /\ \A task_id \in TaskIds :
          LET r == create_session(World, task_id, now)
          IN /\ (task_id \notin 1..Len(Tasks) \/ settings = NoSettings) =>
                    /\ r[2]
                    /\ r[1].sessions = sessions
                    /\ r[1].breaks = breaks
             /\ r[1].mgr = mgr
             /\ r[1].timers = timers
             /\ r[1].threads = threads
    /\ \A session_id \in SessionIds :
          ~HasSession(World, session_id) =>
              LET r == start_session(World, session_id, now)
              IN /\ r[2]
                 /\ r[1].mgr.active_session_id = None
                 /\ r[1].mgr.work_timer = None
                 /\ r[1].timers = timers
                 /\ r[1].threads = threads
                 /\ r[1].sessions = sessions
                 /\ r[1].breaks = breaks
                 /\ mgr = NewManager => r[1].mgr = NewManager

\* C28 happens: two sessions have been created and none started, the manager
\* is idle with no timer built, and from here create_session for an unknown
\* task and start_session for an unknown id both raise
C28_Witness ==
    /\ Len(sessions) = 2
    /\ breaks # <<>>
    /\ mgr = NewManager
    /\ timers = <<>>
    /\ create_session(World, Len(Tasks) + 1, now) = <<World, TRUE>>
    /\ start_session(World, Len(sessions) + 1, now) = <<World, TRUE>>

\* the break rows that create_session(task_id) would add now, as offsets in
\* minutes from the new session's start_time
CreatedOffsets(task_id) ==
    LET w   == create_session(World, task_id, now)[1]
        sid == Len(w.sessions)
    IN [k \in 1..(Len(w.breaks) - Len(breaks)) |->
           (w.breaks[Len(breaks) + k].scheduled_time - w.sessions[sid].start_time)
               \div SecondsPerMinute]

\* C29: the break rows create_session persists for a task are at the offsets
\* that calculate_break_schedule(mode, duration, settings) returns for it, so
\* each lies strictly between 0 and planned_duration_minutes; for a focused
\* task none is persisted.
C29_PersistedBreaksFollowSchedule ==
    settings # NoSettings =>
        \A task_id \in 1..Len(Tasks) :
            LET task == Tasks[task_id]
                offsets == CreatedOffsets(task_id)
            IN /\ offsets = calculate_break_schedule(
                                task.mode, task.allocated_time_minutes, settings)
               /\ \A k \in 1..Len(offsets) :
                     offsets[k] > 0 /\ offsets[k] < task.allocated_time_minutes
               /\ task.mode = "focused" => offsets = <<>>

\* C30: when extend_session replaces the offset list of the running work
\* timer, no index of the new list, each of which stands for a break that is
\* still pending, is among the indices the timer already holds as triggered;
\* so every pending break can still be triggered.
C30_NoPendingOffsetAlreadyTriggered ==
    \A additional_minutes \in ExtendMinutes :
        LET r == extend_session(World, additional_minutes, now)
            t == mgr.work_timer
        IN (~r[2] /\ t # None /\ timers[t].state = "running") =>
              /\ Len(r[1].timers[t].break_times) =
                     Cardinality(PendingBreakIds(r[1], mgr.active_session_id))
              /\ r[1].timers[t].triggered_breaks
                     \cap 1..Len(r[1].timers[t].break_times) = {}

\* thread th is alive between two passes of the loop of a timer the manager
\* no longer refers to
OrphanThread(th) ==
    /\ threads[th].pc = "top"
    /\ threads[th].timer \notin {mgr.work_timer, mgr.break_timer, mgr.cooldown_timer}

\* the manager is idle, session_id is a session still in progress and every
\* other session has ended
NextSessionAfterEnded(session_id) ==
    /\ mgr = NewManager
    /\ Len(sessions) >= 2
    /\ sessions[session_id].status = "in_progress"
    /\ \A sid \in 1..Len(sessions) :
          sid # session_id => sessions[sid].status = "completed"

\* C31: once a session has ended and another is started on the same manager,
\* a pass of the loop of a timer left over from the ended session changes
\* nothing of the new session: the manager's fields, the session rows, the
\* break rows and the new work timer are as start_session left them.
C31_EndedSessionTimersAreSilent ==
    \A session_id \in 1..Len(sessions), th \in 1..Len(threads) :
        (NextSessionAfterEnded(session_id) /\ OrphanThread(th)) =>
            LET started == start_session(World, session_id, now)[1]
                w       == RunIteration(started, th, now)
            IN /\ w.mgr = started.mgr
               /\ w.sessions = started.sessions
               /\ w.breaks = started.breaks
               /\ w.timers[started.mgr.work_timer] =
                      started.timers[started.mgr.work_timer]

\* the rows of session sid that ended with the given status
BreaksWithStatus(sid, status) ==
    {b \in 1..Len(breaks) :
        breaks[b].session_id = sid /\ breaks[b].status = status}

\* no thread is inside a method of the manager
AtRest ==
    /\ upc = "idle"
    /\ \A th \in 1..Len(threads) : threads[th].pc \in {"top", "dead"}

\* C32: however skip_break, snooze_break and handle_emergency_exit interleave
\* with the break timer's completion callback, every break is resolved once:
\* when both threads are out of the manager, breaks_taken counts the rows
\* left completed, breaks_skipped the rows left skipped and breaks_snoozed the
\* rows left snoozed, so no break has moved two counters or a counter that
\* its final status does not name.
C32_BreakResolvedOnce ==
    AtRest =>
        \A sid \in 1..Len(sessions) :
            /\ sessions[sid].breaks_taken =
                   Cardinality(BreaksWithStatus(sid, "completed"))
            /\ sessions[sid].breaks_skipped =
                   Cardinality(BreaksWithStatus(sid, "skipped"))
            /\ sessions[sid].breaks_snoozed =
                   Cardinality(BreaksWithStatus(sid, "snoozed"))

\* C33: while a session is active and its work timer is Paused, a break is in
\* progress: is_in_break is set and the break timer is Running.
C33_PausedWorkMeansBreakRunning ==
    (/\ mgr.active_session_id # None
     /\ mgr.work_timer # None
     /\ timers[mgr.work_timer].state = "paused") =>
        /\ mgr.is_in_break
        /\ mgr.break_timer # None
        /\ timers[mgr.break_timer].state = "running"

\* the manager holds a timer of that name and it is Running
ManagerTimerRunning(t) == t # None /\ timers[t].state = "running"

\* C34: a break and a cooldown never overlap: is_in_break and is_in_cooldown
\* are never both set, and the break timer and the cooldown timer are never
\* both Running, also when a break offset and the end of the work time fall
\* into the same pass of the work timer's loop.
C34_BreakAndCooldownExclusive ==
    /\ ~(mgr.is_in_break /\ mgr.is_in_cooldown)
    /\ ~(ManagerTimerRunning(mgr.break_timer)
            /\ ManagerTimerRunning(mgr.cooldown_timer))

\* the threads that have not left the loop of _run
LiveThreads == {th \in 1..Len(threads) : threads[th].pc # "dead"}

\* C35: whatever sequence of start, pause, resume, stop and reset the caller
\* makes, at most one background thread is executing the timer's loop.
C35_OneLoopThreadPerTimer ==
    \A t \in 1..Len(timers) :
        Cardinality({th \in LiveThreads : threads[th].timer = t}) <= 1

\* the work timer is paused with more than the snooze duration left to run
WorkTimeRemainsAfterSnooze ==
    /\ mgr.work_timer # None
    /\ timers[mgr.work_timer].state = "paused"
    /\ get_remaining_seconds(timers[mgr.work_timer], now)
          > settings.normal_snooze_duration_minutes * SecondsPerMinute

\* C36: a break that was snoozed is started again later in the session.  The
\* work timer starts a break only through getNextPendingBreak, so after a
\* granted snooze_break with work time left beyond the snooze, the snoozed
\* row is among the rows getPendingBreaks returns for the session and its
\* rescheduled time is not behind the clock.
C36_SnoozedBreakComesBack ==
    (SnoozeSucceeds /\ WorkTimeRemainsAfterSnooze) =>
        LET w   == snooze_break(World, now)[1]
            bid == mgr.current_break_id
            pending == getPendingBreaks(w, mgr.active_session_id)
        IN /\ \E k \in 1..Len(pending) : pending[k] = bid
           /\ w.breaks[bid].scheduled_time >= now

\* session sid has been finalized and the manager is idle again
CompletedAndIdle(sid) ==
    /\ sid \in 1..Len(sessions)
    /\ sessions[sid].status = "completed"
    /\ mgr = NewManager

\* the clock has reached the end of the window looked at while some timer is
\* still running on a live thread: what is pending lies beyond the window
StillRunningAtHorizon ==
    /\ now = MaxMinutes * SecondsPerMinute
    /\ \E th \in 1..Len(threads) :
          /\ threads[th].pc = "top"
          /\ timers[threads[th].timer].state = "running"

\* C37: under fair scheduling a started session is eventually completed with
\* the manager idle again, whether its breaks run out or are ended by
\* skip_break, snooze_break or handle_emergency_exit and whether its cooldown
\* runs out or is left by handle_emergency_exit.  Within the window looked
\* at: either that, or a timer is still running when the window ends.
C37_StartedSessionCompletes ==
    \A sid \in 1..MaxSessions :
        [](mgr.active_session_id = sid =>
              <>(CompletedAndIdle(sid) \/ StillRunningAtHorizon))

\* the call left the break in progress as it was: the manager's fields, the
\* session row, the break rows and the timers are unchanged
BreakUntouched(w) ==
    /\ w.mgr = mgr
    /\ w.sessions = sessions
    /\ w.breaks = breaks
    /\ w.timers = timers

\* C38: in a strict session a break in progress is ended neither by
\* snooze_break nor by skip_break: after either call the break is still in
\* progress with its timer running, no snooze pass is consumed and neither
\* breaks_snoozed nor breaks_skipped has moved.
C38_StrictBreakCannotBeSnoozedOrSkipped ==
    (BreakInProgress /\ mgr.active_session_id # None
        /\ ActiveSession.mode = "strict") =>
            /\ BreakUntouched(snooze_break(World, now)[1])
            /\ BreakUntouched(skip_break(World, now)[1])

\* C39: can_snooze_break answers True exactly for mode 'normal' with a
\* DBManager and a stored session that has at least one snooze pass left,
\* which is what DBManager.canSnooze answers for that session; for 'strict',
\* 'focused', a missing session id, an unknown session or no DBManager it
\* answers False.
C39_CanSnoozeIffNormalWithPassLeft ==
    (obs.fn = "can_snooze_break" /\ obs.returned) =>
        obs.result = (/\ obs.mode = "normal"
                      /\ obs.db
                      /\ HasSession(World, obs.session_id)
                      /\ canSnooze(World, obs.session_id))

\* C40: for n pending breaks and remaining = planned - elapsed > 0,
\* redistribute_breaks_after_snooze returns n offsets, the i-th being
\* elapsed + i * remaining / (n + 1) rounded down to whole minutes (for one
\* pending break elapsed + remaining / 2); with remaining <= 0 or nothing
\* pending it returns no offsets.
C40_OffsetsEvenlySpacedRoundedDown ==
    (obs.fn = "redistribute_breaks_after_snooze" /\ obs.returned) =>
        LET elapsed == calculate_elapsed_minutes(sessions[1].start_time, now)
            remaining == sessions[1].planned_duration_minutes - elapsed
            n == Cardinality(PendingBreakIds(World, 1))
        IN IF remaining <= 0 \/ n = 0 THEN obs.result = <<>>
           ELSE /\ Len(obs.result) = n
                /\ \A i \in 1..n :
                      obs.result[i] = elapsed + (i * remaining) \div (n + 1)

====
